---- MODULE Spec2Model ----
(***************************************************************************)
(* Model of mcp-shell-server's guarded command execution:                  *)
(*   src/src/mcp_shell_server/command_validator.py  (CommandValidator)     *)
(*   src/src/mcp_shell_server/directory_manager.py  (DirectoryManager)     *)
(*   src/src/mcp_shell_server/shell_executor.py     (ShellExecutor)        *)
(*                                                                         *)
(* A Python str is a sequence of one-character strings, so that strip(),   *)
(* split("|") and regular-expression matching are computed and not         *)
(* assumed.  An Optional value is a sequence of length at most one         *)
(* (<<>> is None).  An error message is a record [kind, arg]: kind names   *)
(* the message template of the source and arg the text interpolated in it. *)
(***************************************************************************)
EXTENDS Integers, Sequences, FiniteSets, TLC

(***************************************************************************)
(* Bounds of the model.                                                    *)
(***************************************************************************)
\* longest argument vector handed to execute()
MaxLen == 3
\* largest timeout value (seconds) handed to execute(); 0 is always included
MaxTimeout == 1
\* largest exit code a process reports
MaxExit == 1
\* longest command name handed to is_command_allowed() on its own
MaxNameLen == 3
\* the longest pipeline given to ProcessManager.execute_pipeline
MaxStages == 2
\* the most processes one ProcessManager creates through create_process
MaxProcs == 2
\* the most runs of the signal handler
MaxSignals == 2

(***************************************************************************)
(* Strings.                                                                *)
(***************************************************************************)
tA      == <<"a">>
tB      == <<"b">>
tPadA   == <<" ", "a">>
tPipe   == <<"|">>
tSemi   == <<";">>
tAnd    == <<"&", "&">>
tOr     == <<"|", "|">>
tGt     == <<">">>
tGtGt   == <<">", ">">>
tLt     == <<"<">>
tGlued  == <<"b", "|">>
tEmpty  == <<>>
tBlank  == <<" ">>

\* str.isspace() of one character
IsSpaceChar(c) == c = " "

\* str.isspace(): non-empty and every character is whitespace
IsSpace(s) == Len(s) > 0 /\ \A i \in 1..Len(s) : IsSpaceChar(s[i])

RECURSIVE LStrip(_)
LStrip(s) ==
    IF s = <<>> THEN <<>>
    ELSE IF IsSpaceChar(Head(s)) THEN LStrip(Tail(s)) ELSE s

RECURSIVE RStrip(_)
RStrip(s) ==
    IF s = <<>> THEN <<>>
    ELSE IF IsSpaceChar(s[Len(s)]) THEN RStrip(SubSeq(s, 1, Len(s) - 1)) ELSE s

\* str.strip()
Strip(s) == RStrip(LStrip(s))

\* c in s
HasChar(s, c) == \E i \in 1..Len(s) : s[i] = c

\* s.split(c): the parts between occurrences of c, empty parts included
RECURSIVE SplitOn(_, _, _)
SplitOn(s, c, cur) ==
    IF s = <<>> THEN <<cur>>
    ELSE IF Head(s) = c THEN <<cur>> \o SplitOn(Tail(s), c, <<>>)
    ELSE SplitOn(Tail(s), c, Append(cur, Head(s)))

Split(s, c) == SplitOn(s, c, <<>>)

\* x in list
InList(x, list) == \E i \in 1..Len(list) : list[i] = x

\* list.index(x): position (from 1) of the first element equal to x
IndexOf(list, x) == CHOOSE i \in 1..Len(list) : list[i] = x /\ \A j \in 1..(i - 1) : list[j] # x

(***************************************************************************)
(* Error messages and result records.                                      *)
(***************************************************************************)
Msg(kind, arg) == [kind |-> kind, arg |-> arg]
NoArg == <<>>
\* error: None
NoError == Msg("None", NoArg)

\* the outcome of a step that may raise: ok with a value, or a raised message
Ok(v) == [ok |-> TRUE, val |-> v, err |-> NoError]
Raise(m) == [ok |-> FALSE, val |-> <<>>, err |-> m]


(***************************************************************************)
(* Tokenizer / preprocessor (ShellExecutor helpers).                       *)
(***************************************************************************)
ProtectedOperators == {tOr, tAnd, tSemi}
ShellOperators == {tSemi, tAnd, tOr, tPipe}
RedirectionOperators == {tGt, tGtGt, tLt}

\* the tokens one token of the argument vector contributes
PreprocessToken(token) ==
    IF token \in ProtectedOperators THEN <<token>>
    ELSE IF HasChar(token, "|") /\ token # tPipe
         THEN LET parts == Split(token, "|")
                  kept == SelectSeq(parts, LAMBDA part : Strip(part) # <<>>)
              IN  [k \in 1..Len(kept) |-> Strip(kept[k])] \o <<tPipe>>
         ELSE <<token>>

RECURSIVE PreprocessCommand(_)
PreprocessCommand(command) ==
    IF command = <<>> THEN <<>>
    ELSE PreprocessToken(Head(command)) \o PreprocessCommand(Tail(command))

CleanCommand(command) == SelectSeq(command, LAMBDA arg : arg # <<>>)

NoRedirects == [stdin |-> <<>>, stdout |-> <<>>, stdout_append |-> FALSE]

\* truth value of an Optional[str]: neither None nor the empty string
Truthy(opt) == opt # <<>> /\ opt[1] # <<>>

RECURSIVE ParseFrom(_, _, _, _)
ParseFrom(command, i, cmd, redirects) ==
    IF i > Len(command) THEN Ok([cmd |-> cmd, redirects |-> redirects])
    ELSE LET token == command[i] IN
         IF token \in ShellOperators
         THEN Raise(Msg("UnexpectedOperator", token))
         ELSE IF token \in {tGt, tGtGt}
         THEN IF i + 1 > Len(command)
              THEN Raise(Msg("MissingOutputPath", NoArg))
              ELSE IF command[i + 1] \in RedirectionOperators
              THEN Raise(Msg("InvalidRedirectionTarget", NoArg))
              ELSE ParseFrom(command, i + 2, cmd,
                             [redirects EXCEPT !.stdout = <<command[i + 1]>>,
                                               !.stdout_append = (token = tGtGt)])
         ELSE IF token = tLt
         THEN IF i + 1 > Len(command)
              THEN Raise(Msg("MissingInputPath", NoArg))
              ELSE ParseFrom(command, i + 2, cmd,
                             [redirects EXCEPT !.stdin = <<command[i + 1]>>])
         ELSE ParseFrom(command, i + 1, Append(cmd, token), redirects)

ParseCommand(command) == ParseFrom(command, 1, <<>>, NoRedirects)

\* IORedirectionHandler.validate_redirection_syntax: no redirection operator
\* directly after another one
ValidateRedirectionSyntax(command) ==
    IF \E i \in 2..Len(command) : /\ command[i] \in RedirectionOperators
                                   /\ command[i - 1] \in RedirectionOperators
    THEN Raise(Msg("ConsecutiveOperators", NoArg))
    ELSE Ok(<<>>)

\* the loop of IORedirectionHandler.process_redirections from position i
RECURSIVE RedirectionsFrom(_, _, _, _)
RedirectionsFrom(command, i, cmd, redirects) ==
    IF i > Len(command) THEN Ok([cmd |-> cmd, redirects |-> redirects])
    ELSE LET token == command[i] IN
         IF token \in {tGt, tGtGt}
         THEN IF i + 1 > Len(command)
              THEN Raise(Msg("MissingOutputPath", NoArg))
              ELSE IF command[i + 1] \in RedirectionOperators
              THEN Raise(Msg("InvalidRedirectionSyntax", NoArg))
              ELSE RedirectionsFrom(command, i + 2, cmd,
                                    [redirects EXCEPT !.stdout = <<command[i + 1]>>,
                                                      !.stdout_append = (token = tGtGt)])
         ELSE IF token = tLt
         THEN IF i + 1 > Len(command)
              THEN Raise(Msg("MissingInputPath", NoArg))
              ELSE IF command[i + 1] \in RedirectionOperators
              THEN Raise(Msg("InvalidRedirectionSyntax", NoArg))
              ELSE RedirectionsFrom(command, i + 2, cmd,
                                    [redirects EXCEPT !.stdin = <<command[i + 1]>>])
         ELSE RedirectionsFrom(command, i + 1, Append(cmd, token), redirects)

ProcessRedirections(command) ==
    IF ~ValidateRedirectionSyntax(command).ok THEN ValidateRedirectionSyntax(command)
    ELSE RedirectionsFrom(command, 1, <<>>, NoRedirects)

(***************************************************************************)
(* Regular expressions (re.compile / Pattern.match).  A compiled pattern   *)
(* is a sequence of atoms: a literal character, "." , a negated one-       *)
(* character class, ".*", "^" and "$".  MatchEnds is the set of positions  *)
(* at which a match that starts at position 0 can end.                     *)
(***************************************************************************)
Lit(c)   == [t |-> "lit", c |-> c]
Dot      == [t |-> "dot", c |-> ""]
NotCh(c) == [t |-> "not", c |-> c]
DotStar  == [t |-> "dotstar", c |-> ""]
Bol      == [t |-> "bol", c |-> ""]
Eol      == [t |-> "eol", c |-> ""]

AtomStep(atom, s, J) ==
    CASE atom.t = "lit"     -> {j + 1 : j \in {k \in J : k < Len(s) /\ s[k + 1] = atom.c}}
      [] atom.t = "dot"     -> {j + 1 : j \in {k \in J : k < Len(s)}}
      [] atom.t = "not"     -> {j + 1 : j \in {k \in J : k < Len(s) /\ s[k + 1] # atom.c}}
      [] atom.t = "dotstar" -> {k \in 0..Len(s) : \E j \in J : j <= k}
      [] atom.t = "bol"     -> {j \in J : j = 0}
      [] atom.t = "eol"     -> {j \in J : j = Len(s)}

RECURSIVE MatchFrom(_, _, _)
MatchFrom(pattern, s, J) ==
    IF pattern = <<>> THEN J
    ELSE MatchFrom(Tail(pattern), s, AtomStep(Head(pattern), s, J))

MatchEnds(pattern, s) == MatchFrom(pattern, s, {0})

\* pattern.match(s) is not None: some prefix of s matches
ReMatch(pattern, s) == MatchEnds(pattern, s) # {}

\* pattern.fullmatch(s) is not None: the whole of s matches
ReFullMatch(pattern, s) == Len(s) \in MatchEnds(pattern, s)

(***************************************************************************)
(* Policy validator (CommandValidator).  env is the configuration:         *)
(* env.allow the comma-separated entries of ALLOW_COMMANDS and             *)
(* ALLOWED_COMMANDS, env.patterns the compiled entries of ALLOW_PATTERNS.  *)
(***************************************************************************)
GetAllowedCommands(env) == {Strip(c) : c \in env.allow} \ {<<>>}

GetAllowedPatterns(env) == env.patterns

IsCommandAllowed(command, env) ==
    LET cmd == Strip(command) IN
    \/ cmd \in GetAllowedCommands(env)
    \/ \E k \in 1..Len(GetAllowedPatterns(env)) : ReMatch(GetAllowedPatterns(env)[k], cmd)

ValidateNoShellOperators(cmd) ==
    IF cmd \in {tSemi, tAnd, tOr, tPipe}
    THEN Raise(Msg("UnexpectedOperator", cmd))
    ELSE Ok(<<>>)

RECURSIVE ValidatePipelineFrom(_, _, _)
ValidatePipelineFrom(commands, current_cmd, env) ==
    IF commands = <<>>
    THEN IF current_cmd # <<>> /\ ~IsCommandAllowed(current_cmd[1], env)
         THEN Raise(Msg("CommandNotAllowed", current_cmd[1]))
         ELSE Ok(<<>>)
    ELSE LET token == Head(commands) IN
         IF token = tPipe
         THEN IF current_cmd = <<>>
              THEN Raise(Msg("EmptyCommandBeforePipe", NoArg))
              ELSE IF ~IsCommandAllowed(current_cmd[1], env)
              THEN Raise(Msg("CommandNotAllowed", current_cmd[1]))
              ELSE ValidatePipelineFrom(Tail(commands), <<>>, env)
         ELSE IF token \in {tSemi, tAnd, tOr}
         THEN Raise(Msg("UnexpectedOperatorInPipeline", token))
         ELSE ValidatePipelineFrom(Tail(commands), Append(current_cmd, token), env)

ValidatePipeline(commands, env) == ValidatePipelineFrom(commands, <<>>, env)

\* faulty variant: the head of the command is not checked against the policy
ValidateCommand_m(command, env) ==
    IF command = <<>>
    THEN Raise(Msg("EmptyCommand", NoArg))
    ELSE IF GetAllowedCommands(env) = {} /\ GetAllowedPatterns(env) = <<>>
    THEN Raise(Msg("NoCommandsAllowed", NoArg))
    ELSE Ok(<<>>)

ValidateCommand(command, env) ==
    IF command = <<>>
    THEN Raise(Msg("EmptyCommand", NoArg))
    ELSE IF GetAllowedCommands(env) = {} /\ GetAllowedPatterns(env) = <<>>
    THEN Raise(Msg("NoCommandsAllowed", NoArg))
    ELSE IF ~IsCommandAllowed(Strip(command[1]), env)
    THEN Raise(Msg("CommandNotAllowed", Strip(command[1])))
    ELSE Ok(<<>>)

(***************************************************************************)
(* Directory validator (DirectoryManager).  A directory argument is the    *)
(* record of what the operating system answers about it.                   *)
(***************************************************************************)
\* faulty variant: existence is checked before the path is known to be absolute
ValidateDirectory_m(d) ==
    IF ~d.given THEN Raise(Msg("DirectoryRequired", NoArg))
    ELSE IF ~d.exists THEN Raise(Msg("DirectoryDoesNotExist", NoArg))
    ELSE IF ~d.abs THEN Raise(Msg("DirectoryNotAbsolute", NoArg))
    ELSE IF ~d.isdir THEN Raise(Msg("NotADirectory", NoArg))
    ELSE IF ~d.access THEN Raise(Msg("DirectoryNotAccessible", NoArg))
    ELSE Ok(<<>>)

\* validate_directory(directory)
ValidateDirectory(d) ==
    IF ~d.given THEN Raise(Msg("DirectoryRequired", NoArg))
    ELSE IF ~d.abs THEN Raise(Msg("DirectoryNotAbsolute", NoArg))
    ELSE IF ~d.exists THEN Raise(Msg("DirectoryDoesNotExist", NoArg))
    ELSE IF ~d.isdir THEN Raise(Msg("NotADirectory", NoArg))
    ELSE IF ~d.access THEN Raise(Msg("DirectoryNotAccessible", NoArg))
    ELSE Ok(<<>>)


(***************************************************************************)
(* Execution coordinator (ShellExecutor.execute, _execute_pipeline).       *)
(***************************************************************************)
VARIABLES
    registry,    \* ProcessManager._processes: the tracked processes (positions in procs)
    first_stdin, \* execute_pipeline(..., first_stdin): Optional[bytes]
    installed,   \* the handler installed for SIGINT and for SIGTERM
    original,    \* _original_sigint_handler / _original_sigterm_handler
    handled,     \* history: one record per run of handle_termination
    handles,     \* every file object this call has opened, in opening order
    fs,          \* the file system: the bytes each path holds
    written,     \* history: [path, mode, out] of every completed call that redirected its output
    pc,          \* position of the call: "call", "spawn", "communicate", "done", "raised"
    command,     \* execute(command, ...): the argument vector
    directory,   \* execute(..., directory, ...): what the OS answers about it
    timeout,     \* execute(..., timeout): Optional[int]
    env,         \* ALLOW_COMMANDS/ALLOWED_COMMANDS entries and ALLOW_PATTERNS
    path,        \* "none", "single" or "pipeline"
    parsed,      \* the command vectors to spawn (parsed_commands; <<cmd>> on the single path)
    stageIdx,    \* the stage being spawned or communicated with (i)
    procs,       \* every process this call has spawned, in spawn order
    processes,   \* _execute_pipeline's list `processes` (positions in procs)
    result,      \* Optional: the record execute() returned
    timedOut,    \* asyncio.TimeoutError was raised by wait_for in this call
    allowed,     \* Optional: what is_command_allowed(command[0]) answered
    compiled_patterns, \* CommandValidator._compiled_patterns: Optional, None until first use
    killing      \* execute_with_timeout: the exception caught and the progress of _kill_process

vars == <<pc, command, directory, timeout, env, path, parsed, stageIdx,
          procs, processes, result, timedOut, allowed, handles, fs, written,
         registry, first_stdin, installed, original, handled, compiled_patterns, killing>>

\* no _kill_process has run
\* (run: the handler that runs _kill_process, "inner" for asyncio.TimeoutError,
\* followed by "outer" for Exception)
NoFallback == [exc |-> <<>>, run |-> "none", polls |-> 0, calls |-> <<>>, logged |-> <<>>]

\* faulty variant: an error dict that reports status 0
ErrorResult_m(m) == [error |-> m, status |-> 0]

\* the five-line error dict of execute()/_execute_pipeline(): status 1
ErrorResult(m) == [error |-> m, status |-> 1]

\* faulty variant: a success dict with a hard-coded status 0
SuccessResult_m(returncode) == [error |-> NoError, status |-> 0]

\* the dict returned when the command ran to completion
SuccessResult(returncode) == [error |-> NoError, status |-> returncode]

\* the dict returned by the single path's `except asyncio.TimeoutError`
TimeoutResult(t) == [error |-> Msg("TimedOutAfterSeconds", t), status |-> 0 - 1]

\* the stages execute() cuts the cleaned command into at "|" tokens
RECURSIVE SplitStages(_, _, _)
SplitStages(tokens, current_cmd, commands) ==
    IF tokens = <<>>
    THEN Ok(IF current_cmd # <<>> THEN Append(commands, current_cmd) ELSE commands)
    ELSE IF Head(tokens) = tPipe
         THEN IF current_cmd # <<>>
              THEN SplitStages(Tail(tokens), <<>>, Append(commands, current_cmd))
              ELSE Raise(Msg("EmptyCommandBeforePipe", NoArg))
         ELSE SplitStages(Tail(tokens), Append(current_cmd, Head(tokens)), commands)

\* faulty variant: the loop over validate_no_shell_operators is left out
FirstOperatorError_m(tokens) == Ok(<<>>)

\* the first token of the cleaned command that validate_no_shell_operators rejects
RECURSIVE FirstOperatorError(_)
FirstOperatorError(tokens) ==
    IF tokens = <<>> THEN Ok(<<>>)
    ELSE IF ~ValidateNoShellOperators(Head(tokens)).ok
         THEN ValidateNoShellOperators(Head(tokens))
         ELSE FirstOperatorError(Tail(tokens))

\* _execute_pipeline up to its first spawn: parse every stage in order and
\* open the redirection files of the first and of the last stage
RECURSIVE PipelineSetupFrom(_, _, _, _, _)
PipelineSetupFrom(commands, k, parsed_commands, inOk, outOk) ==
    IF k > Len(commands) THEN Ok(parsed_commands)
    ELSE LET p == ParseCommand(commands[k]) IN
         IF ~p.ok THEN Raise(p.err)
         ELSE IF IndexOf(commands, commands[k]) = 1 /\ Truthy(p.val.redirects.stdin) /\ ~inOk
         THEN Raise(Msg("OpenRaised", p.val.redirects.stdin[1]))
         ELSE IF IndexOf(commands, commands[k]) = Len(commands)
                 /\ Truthy(p.val.redirects.stdout) /\ ~outOk
         THEN Raise(Msg("OpenRaised", p.val.redirects.stdout[1]))
         ELSE PipelineSetupFrom(commands, k + 1, Append(parsed_commands, p.val.cmd), inOk, outOk)

PipelineSetup(commands, inOk, outOk) == PipelineSetupFrom(commands, 1, <<>>, inOk, outOk)

\* execute() from its entry to the first spawn.  inOk / outOk: whether the
\* input file can be read and the output file opened.  The outcome is
\* either a returned record or the command vectors to spawn.
Return(r) == [kind |-> "return", result |-> <<r>>, parsed |-> <<>>]
ToSpawn(kind, cmds) == [kind |-> kind, result |-> <<>>, parsed |-> cmds]

SingleSetup(cleaned_command, cmd_in, dir, e, inOk, outOk) ==
    LET ops == FirstOperatorError(cleaned_command)
        p == ParseCommand(cleaned_command)
    IN  IF ~ops.ok THEN Return(ErrorResult(ops.err))
        ELSE IF ~p.ok THEN Return(ErrorResult(p.err))
        ELSE IF ~ValidateCommand(p.val.cmd, e).ok
        THEN Return(ErrorResult(ValidateCommand(p.val.cmd, e).err))
        ELSE IF dir.given /\ ~dir.exists
        THEN Return(ErrorResult(Msg("DirectoryDoesNotExist", NoArg)))
        ELSE IF dir.given /\ ~dir.isdir
        THEN Return(ErrorResult(Msg("NotADirectory", NoArg)))
        ELSE IF CleanCommand(cmd_in) = <<>>
        THEN Return(ErrorResult(Msg("EmptyCommand", NoArg)))
        ELSE IF Truthy(p.val.redirects.stdin) /\ ~inOk
        THEN Return(ErrorResult(Msg("FailedToReadInputFile", p.val.redirects.stdin[1])))
        ELSE IF Truthy(p.val.redirects.stdout) /\ ~outOk
        THEN Return(ErrorResult(Msg("FailedToOpenOutputFile", p.val.redirects.stdout[1])))
        ELSE ToSpawn("single", <<p.val.cmd>>)

PipelineBranch(cleaned_command, dir, e, inOk, outOk) ==
    LET v == ValidatePipeline(cleaned_command, e)
        c == SplitStages(cleaned_command, <<>>, <<>>)
        s == PipelineSetup(c.val, inOk, outOk)
    IN  IF ~v.ok THEN Return(ErrorResult(v.err))
        ELSE IF ~c.ok THEN Return(ErrorResult(c.err))
        ELSE IF ~s.ok THEN Return(ErrorResult(s.err))
        ELSE ToSpawn("pipeline", s.val)

ExecuteSetup(cmd_in, dir, e, inOk, outOk) ==
    LET cleaned_command == CleanCommand(PreprocessCommand(cmd_in)) IN
    IF ~ValidateDirectory(dir).ok
    THEN Return(ErrorResult(ValidateDirectory(dir).err))
    ELSE IF cleaned_command = <<>>
    THEN Return(ErrorResult(Msg("EmptyCommand", NoArg)))
    ELSE IF InList(tPipe, cleaned_command)
    THEN PipelineBranch(cleaned_command, dir, e, inOk, outOk)
    ELSE SingleSetup(cleaned_command, cmd_in, dir, e, inOk, outOk)


(***************************************************************************)
(* Files.  A byte is "a" (ASCII) or "xFF" (a byte that is not UTF-8); a    *)
(* character is "a" or "uFFFD" (the replacement character).  A file        *)
(* object is the record of its opening and of the close() calls made on    *)
(* it.  open() returns an io.TextIOWrapper, which is no instance of        *)
(* typing.IO.                                                              *)
(***************************************************************************)
\* bytes.decode() succeeds
Utf8Valid(bytes) == \A i \in 1..Len(bytes) : bytes[i] # "xFF"

\* bytes.decode("utf-8", errors="replace") of process output
DecodeReplace(bytes) ==
    [i \in 1..Len(bytes) |-> IF bytes[i] = "xFF" THEN "uFFFD" ELSE bytes[i]]

\* str.encode(), and what a text file object writes for a str
RECURSIVE Encode(_)
Encode(text) ==
    IF text = <<>> THEN <<>>
    ELSE (IF Head(text) = "uFFFD" THEN <<"xEF", "xBF", "xBD">> ELSE <<Head(text)>>)
         \o Encode(Tail(text))

\* open(path, mode)
OpenFile(name, pth, mode) ==
    [name |-> name, path |-> pth, mode |-> mode, closed |-> 0, class |-> "TextIOWrapper"]

\* with open(path, "r") as f: ...   (closed when the block is left)
WithOpen(name, pth) == [OpenFile(name, pth, "r") EXCEPT !.closed = 1]

\* isinstance(handle, typing.IO)
IsInstanceIO(h) == h.class = "typing.IO"

\* handle.close()
Close(h) == [h EXCEPT !.closed = @ + 1]

\* "a" if redirects["stdout_append"] else "w"
OpenMode(redirects) == IF redirects.stdout_append THEN "a" ELSE "w"

\* the file object stdout_handle / last_stdout is bound to: the one opened
\* last for output (0: the variable holds no file object)
StdoutHandle(hs) ==
    IF \E i \in 1..Len(hs) : hs[i].name = "stdout"
    THEN CHOOSE i \in 1..Len(hs) :
            hs[i].name = "stdout" /\ \A j \in (i + 1)..Len(hs) : hs[j].name # "stdout"
    ELSE 0

\* if isinstance(stdout_handle, IO): stdout_handle.close()
CloseIfIO(hs) ==
    LET i == StdoutHandle(hs) IN
    IF i # 0 /\ IsInstanceIO(hs[i]) THEN [hs EXCEPT ![i] = Close(@)] ELSE hs

\* what opening the files does to the file system: mode "w" truncates
RECURSIVE OpenEffect(_, _)
OpenEffect(fsys, hs) ==
    IF hs = <<>> THEN fsys
    ELSE OpenEffect(IF Head(hs).mode = "w" THEN [fsys EXCEPT ![Head(hs).path] = <<>>] ELSE fsys,
                    Tail(hs))

\* bytes written to the file behind the output handle, if there is one
WriteStdout(fsys, hs, bytes) ==
    LET i == StdoutHandle(hs) IN
    IF i # 0 THEN [fsys EXCEPT ![hs[i].path] = @ \o bytes] ELSE fsys

\* the history entry of a call that completed with its output redirected
Redirected(hs, bytes) ==
    LET i == StdoutHandle(hs) IN
    IF i # 0 THEN <<[path |-> hs[i].path, mode |-> hs[i].mode, out |-> bytes]>> ELSE <<>>

\* the files the single path opens (lines 457-478): the input file is read
\* inside a with block, the output file is opened and kept
SingleOpens(redirects, inOk, outOk) ==
    LET hin == IF Truthy(redirects.stdin) /\ inOk
               THEN <<WithOpen("stdin", redirects.stdin[1])>> ELSE <<>>
        hout == IF (~Truthy(redirects.stdin) \/ inOk) /\ Truthy(redirects.stdout) /\ outOk
                THEN <<OpenFile("stdout", redirects.stdout[1], OpenMode(redirects))>>
                ELSE <<>>
    IN  hin \o hout

\* the files _execute_pipeline opens while it parses the stages (lines
\* 578-598): the output file of the last stage is opened twice
RECURSIVE PipelineOpensFrom(_, _, _, _, _)
PipelineOpensFrom(commands, k, hs, inOk, outOk) ==
    IF k > Len(commands) THEN hs
    ELSE LET p == ParseCommand(commands[k])
             first == IndexOf(commands, commands[k]) = 1
             last == IndexOf(commands, commands[k]) = Len(commands)
         IN  IF ~p.ok THEN hs
             ELSE IF first /\ Truthy(p.val.redirects.stdin) /\ ~inOk THEN hs
             ELSE LET hs1 == IF first /\ Truthy(p.val.redirects.stdin)
                             THEN Append(hs, WithOpen("stdin", p.val.redirects.stdin[1]))
                             ELSE hs
                      out == OpenFile("stdout", p.val.redirects.stdout[1], OpenMode(p.val.redirects))
                  IN  IF last /\ Truthy(p.val.redirects.stdout)
                      THEN IF ~outOk THEN hs1
                           ELSE PipelineOpensFrom(commands, k + 1, hs1 \o <<out, out>>, inOk, outOk)
                      ELSE PipelineOpensFrom(commands, k + 1, hs1, inOk, outOk)

\* every file object execute() opens from its entry to the first spawn
SetupHandles(cmd_in, dir, e, inOk, outOk) ==
    LET cleaned_command == CleanCommand(PreprocessCommand(cmd_in))
        s == ExecuteSetup(cmd_in, dir, e, inOk, outOk)
    IN  IF InList(tPipe, cleaned_command)
        THEN LET c == SplitStages(cleaned_command, <<>>, <<>>) IN
             IF ValidateDirectory(dir).ok /\ ValidatePipeline(cleaned_command, e).ok /\ c.ok
             THEN PipelineOpensFrom(c.val, 1, <<>>, inOk, outOk)
             ELSE <<>>
        ELSE IF \/ s.kind = "single"
                \/ /\ s.kind = "return"
                   /\ s.result[1].error.kind \in {"FailedToReadInputFile", "FailedToOpenOutputFile"}
             THEN SingleOpens(ParseCommand(cleaned_command).val.redirects, inOk, outOk)
             ELSE <<>>

(***************************************************************************)
(* Processes.  returncode is what asyncio reports: None (<<>>) until the   *)
(* exit of the process has been collected by communicate() or wait().      *)
(* A process that cannot be signalled (os.kill answers EPERM, as for a     *)
(* child that changed its user id) has killable = FALSE.                   *)
(***************************************************************************)
NewProcess(argv, stage, killable) ==
    [argv |-> argv, stage |-> stage, state |-> "running", returncode |-> <<>>,
     killable |-> killable, awaited |-> FALSE, utf8 |-> TRUE]

\* the process ended by itself and communicate() collected its exit code and
\* its output; utf8: the output is valid UTF-8
Exited(p, c, utf8) ==
    [p EXCEPT !.state = "exited", !.returncode = <<c>>, !.awaited = TRUE, !.utf8 = utf8]

\* process.kill() on a process that can be signalled
Killed(p) == [p EXCEPT !.state = "killed"]

\* await process.wait() after a kill: the exit by SIGKILL is collected
Waited(p) == [p EXCEPT !.state = "exited", !.returncode = <<0 - 9>>, !.awaited = TRUE]

\* the process of the stage being run
cur == Len(procs)

\* `if timeout:` of the single path
SingleHasTimeout(t) == t # <<>> /\ t[1] # 0

\* asyncio.wait_for(..., timeout=timeout) of the pipeline path applies a limit
PipelineHasTimeout(t) == t # <<>>

\* wait_for with a limit of 0 gives up before the awaited call can finish
PipelineGivesUpAtOnce(t) == t = <<0>>

(***************************************************************************)
(* Inputs of the coordinator.                                              *)
(***************************************************************************)
ExecTokens == {tA, tB, tPipe, tGlued, tSemi, tGt, tLt, tPadA}

Commands == UNION {[1..n -> ExecTokens] : n \in 0..MaxLen}

DirOk == [given |-> TRUE, abs |-> TRUE, exists |-> TRUE, isdir |-> TRUE, access |-> TRUE]
DirMissing == [given |-> TRUE, abs |-> TRUE, exists |-> FALSE, isdir |-> FALSE, access |-> FALSE]
ExecDirs == {DirOk, DirMissing}

Timeouts == {<<>>} \cup {<<t>> : t \in 0..MaxTimeout}

\* no policy; ALLOW_COMMANDS="a, ,"; ALLOW_PATTERNS="[^b]"
EnvEmpty == [allow |-> {}, patterns |-> <<>>]
EnvNames == [allow |-> {tA, tBlank, tEmpty}, patterns |-> <<>>]
EnvNotB  == [allow |-> {}, patterns |-> << <<NotCh("b")>> >>]
ExecEnvs == {EnvEmpty, EnvNames, EnvNotB}

\* a file name, the paths a redirection can name, what every file holds
\* before the first call, and what a process can write
tF == <<"f">>
Paths == ExecTokens \cup {tF}
OldContent == <<"o">>
NoFilesTouched == [p \in Paths |-> OldContent]
Outputs == {<<>>, <<"a">>, <<"xFF">>}

\* The signals the ProcessManager handles and what signal.signal() can
\* report as the handler that was installed before: SIG_DFL (0), SIG_IGN
\* (1) or a callable (default_int_handler or a handler of the host
\* program); None, for a handler not installed from Python, is left out.
Signals == {"SIGINT", "SIGTERM"}

\* bool(handler): SIG_DFL is Handlers(0) and None is None, both false
HandlerIsTruthy(handler) == handler \notin {"SIG_DFL", "None"}

\* a Python process that has installed nothing itself
PythonDefaults == [s \in Signals |-> IF s = "SIGINT" THEN "callable" ELSE "SIG_DFL"]

\* ProcessManager.__init__ with `previous` the handlers installed before it
SetupSignalHandlers(previous) ==
    /\ registry = {}
    /\ original = previous
    /\ installed = [s \in Signals |-> "handle_termination"]
    /\ handled = <<>>

Init ==
    /\ pc = "call"
    /\ command \in Commands
    /\ directory \in ExecDirs
    /\ timeout \in Timeouts
    /\ env \in ExecEnvs
    /\ path = "none"
    /\ parsed = <<>>
    /\ stageIdx = 0
    /\ procs = <<>>
    /\ processes = <<>>
    /\ result = <<>>
    /\ timedOut = FALSE
    /\ allowed = <<>>
    /\ compiled_patterns = <<>>
    /\ killing = NoFallback
    /\ handles = <<>>
    /\ fs = NoFilesTouched
    /\ written = <<>>
    /\ first_stdin = <<>>
    /\ SetupSignalHandlers(PythonDefaults)

\* the arguments and the policy: the environment and the validator's cache of it
inputs == <<command, directory, timeout, env, compiled_patterns, killing>>

\* the state of the ProcessManager, which execute() does not use
supervisor == <<registry, first_stdin, installed, original, handled>>

(***************************************************************************)
(* execute() from its entry to the first spawn, or to its return when the  *)
(* request is rejected (no process exists: the finally block does nothing).*)
(***************************************************************************)
Execute ==
    /\ pc = "call"
    /\ \E inOk \in BOOLEAN, outOk \in BOOLEAN :
         LET s == ExecuteSetup(command, directory, env, inOk, outOk) IN
         /\ handles' = handles \o SetupHandles(command, directory, env, inOk, outOk)
         /\ fs' = OpenEffect(fs, SetupHandles(command, directory, env, inOk, outOk))
         /\ IF s.kind = "return"
            THEN /\ pc' = "done"
                 /\ result' = s.result
                 /\ UNCHANGED <<path, parsed, stageIdx>>
            ELSE /\ pc' = "spawn"
                 /\ path' = s.kind
                 /\ parsed' = s.parsed
                 /\ stageIdx' = 1
                 /\ UNCHANGED result
    /\ UNCHANGED <<inputs, supervisor, procs, processes, timedOut, allowed, written>>

(***************************************************************************)
(* await asyncio.create_subprocess_shell(...): the process of the current  *)
(* stage starts, or the call raises (OSError) and the error dict is        *)
(* returned; every process in `processes` has a return code by then.       *)
(***************************************************************************)
Spawn ==
    /\ pc = "spawn"
    /\ \/ \E killable \in BOOLEAN :
            /\ procs' = Append(procs, NewProcess(parsed[stageIdx], stageIdx, killable))
            /\ pc' = "communicate"
            /\ UNCHANGED result
       \/ /\ result' = <<ErrorResult(Msg("SpawnRaised", NoArg))>>
          /\ pc' = "done"
          /\ UNCHANGED procs
    /\ handles' = IF pc' = "done" /\ path = "pipeline" THEN CloseIfIO(handles) ELSE handles
    /\ UNCHANGED <<inputs, supervisor, path, parsed, stageIdx, processes, timedOut, allowed, fs, written>>


(***************************************************************************)
(* communicate() returns: the process ran to completion with exit code c.  *)
(* The single path decodes the output strictly (bytes.decode() raises on   *)
(* invalid UTF-8 and the outer handler returns the error dict), the        *)
(* pipeline path with errors="replace".                                    *)
(***************************************************************************)
SingleReturns(c, utf8, out) ==
    /\ procs' = [procs EXCEPT ![cur] = Exited(@, c, utf8)]
    /\ result' = IF utf8 THEN <<SuccessResult(c)>>
                 ELSE <<ErrorResult(Msg("DecodeRaised", NoArg))>>
    /\ pc' = "done"
    /\ fs' = WriteStdout(fs, handles, out)
    /\ handles' = CloseIfIO(handles)
    /\ written' = IF utf8 THEN written \o Redirected(handles, out) ELSE written
    /\ UNCHANGED <<stageIdx, processes>>

\* faulty variant: a non-zero return code does not stop the pipeline
StageFailed_m(c) == FALSE

\* `if process.returncode != 0: raise ValueError(...)`
StageFailed(c) == c # 0

PipelineStageReturns(c, utf8, out) ==
    /\ procs' = [procs EXCEPT ![cur] = Exited(@, c, utf8)]
    /\ processes' = Append(processes, cur)
    /\ IF StageFailed(c)
       THEN /\ result' = <<ErrorResult(Msg("CommandFailedWithExitCode", <<c>>))>>
            /\ pc' = "done"
            /\ handles' = CloseIfIO(handles)
            /\ UNCHANGED <<stageIdx, fs, written>>
       ELSE IF stageIdx = Len(parsed)
       THEN /\ result' = <<SuccessResult(procs'[processes'[Len(processes')]].returncode[1])>>
            /\ pc' = "done"
            /\ fs' = WriteStdout(fs, handles, Encode(DecodeReplace(out)))
            /\ handles' = CloseIfIO(handles)
            /\ written' = written \o Redirected(handles, out)
            /\ UNCHANGED stageIdx
       ELSE /\ stageIdx' = stageIdx + 1
            /\ pc' = "spawn"
            /\ UNCHANGED <<result, handles, fs, written>>

CommunicateReturns ==
    /\ pc = "communicate"
    /\ \E c \in 0..MaxExit, utf8 \in BOOLEAN, out \in Outputs :
         \/ /\ path = "single"
            /\ SingleReturns(c, utf8, out)
         \/ /\ path = "pipeline"
            /\ ~PipelineGivesUpAtOnce(timeout)
            /\ PipelineStageReturns(c, utf8, out)
    /\ UNCHANGED <<inputs, supervisor, path, parsed, timedOut, allowed>>

(***************************************************************************)
(* wait_for raises asyncio.TimeoutError while the process is running.      *)
(* Single path: kill and wait, then the timeout dict; a kill that raises   *)
(* anything but ProcessLookupError reaches the outer handler, and the kill *)
(* of the finally block then raises out of execute().                      *)
(* Pipeline path: kill, re-raise; `except Exception` returns str(e), which *)
(* for asyncio.TimeoutError is the empty string.                           *)
(***************************************************************************)
SingleTimesOut ==
    IF procs[cur].killable
    THEN /\ procs' = [procs EXCEPT ![cur] = Waited(Killed(@))]
         /\ result' = <<TimeoutResult(timeout)>>
         /\ pc' = "done"
         /\ handles' = CloseIfIO(handles)
    ELSE /\ pc' = "raised"
         /\ UNCHANGED <<procs, result, handles>>

PipelineStageTimesOut ==
    IF procs[cur].killable
    THEN /\ procs' = [procs EXCEPT ![cur] = Killed(@)]
         /\ result' = <<ErrorResult(Msg("EmptyString", NoArg))>>
         /\ pc' = "done"
    ELSE /\ result' = <<ErrorResult(Msg("KillRaised", NoArg))>>
         /\ pc' = "done"
         /\ UNCHANGED procs

\* what a process that is killed had written to its output file by then
PartialWrite ==
    \E out \in Outputs : fs' = IF path = "single" THEN WriteStdout(fs, handles, out) ELSE fs

CommunicateTimesOut ==
    /\ pc = "communicate"
    /\ \/ /\ path = "single"
          /\ SingleHasTimeout(timeout)
          /\ SingleTimesOut
       \/ /\ path = "pipeline"
          /\ PipelineHasTimeout(timeout)
          /\ PipelineStageTimesOut
          /\ handles' = CloseIfIO(handles)
    /\ timedOut' = TRUE
    /\ PartialWrite
    /\ UNCHANGED <<inputs, supervisor, path, parsed, stageIdx, processes, allowed, written>>

(***************************************************************************)
(* communicate() raises another exception while the process is running.    *)
(* Single path: communicate_with_timeout kills and waits (failures         *)
(* swallowed) and re-raises; the outer handler returns the error dict and  *)
(* the finally block kills a process that still has no return code.        *)
(* Pipeline path: only asyncio.TimeoutError is handled around communicate; *)
(* `except Exception` returns the error dict and the process, which is not *)
(* in `processes`, is left alone.                                          *)
(***************************************************************************)
SingleCommunicateRaises ==
    IF procs[cur].killable
    THEN /\ procs' = [procs EXCEPT ![cur] = Waited(Killed(@))]
         /\ result' = <<ErrorResult(Msg("CommunicateRaised", NoArg))>>
         /\ pc' = "done"
    ELSE /\ pc' = "raised"
         /\ UNCHANGED <<procs, result>>

PipelineCommunicateRaises ==
    /\ result' = <<ErrorResult(Msg("CommunicateRaised", NoArg))>>
    /\ pc' = "done"
    /\ UNCHANGED procs

CommunicateRaises ==
    /\ pc = "communicate"
    /\ \/ /\ path = "single"
          /\ SingleCommunicateRaises
       \/ /\ path = "pipeline"
          /\ ~PipelineGivesUpAtOnce(timeout)
          /\ PipelineCommunicateRaises
    /\ handles' = IF path = "pipeline" THEN CloseIfIO(handles) ELSE handles
    /\ PartialWrite
    /\ UNCHANGED <<inputs, supervisor, path, parsed, stageIdx, processes, timedOut, allowed, written>>

Next ==
    \/ Execute
    \/ Spawn
    \/ CommunicateReturns
    \/ CommunicateTimesOut
    \/ CommunicateRaises

Spec == Init /\ [][Next]_vars

(***************************************************************************)
(* The task running execute() is cancelled while it awaits communicate()   *)
(* (run_tool wraps execute() in asyncio.wait_for).  CancelledError is not  *)
(* an Exception: no `except` clause of execute() or _execute_pipeline      *)
(* catches it and only the finally blocks run.  Single path: the process   *)
(* without a return code is killed and awaited; a kill() that raises       *)
(* leaves execute() with that exception.  Pipeline path: the finally block *)
(* goes over `processes`, to which a stage is appended once its            *)
(* communicate() has returned, and closes the output file.                 *)
(***************************************************************************)
SingleCancelled ==
    IF procs[cur].killable
    THEN /\ procs' = [procs EXCEPT ![cur] = Waited(Killed(@))]
         /\ pc' = "cancelled"
    ELSE /\ pc' = "raised"
         /\ UNCHANGED procs

PipelineCancelled ==
    /\ pc' = "cancelled"
    /\ UNCHANGED procs

Cancelled ==
    /\ pc = "communicate"
    /\ \/ /\ path = "single"
          /\ SingleCancelled
       \/ /\ path = "pipeline"
          /\ ~PipelineGivesUpAtOnce(timeout)
          /\ PipelineCancelled
    /\ handles' = IF path = "pipeline" THEN CloseIfIO(handles) ELSE handles
    /\ PartialWrite
    /\ UNCHANGED <<inputs, supervisor, path, parsed, stageIdx, processes, result, timedOut,
                   allowed, written>>

NextCancel ==
    \/ Execute
    \/ Spawn
    \/ CommunicateReturns
    \/ CommunicateTimesOut
    \/ CommunicateRaises
    \/ Cancelled

SpecCancel == Init /\ [][NextCancel]_vars


(***************************************************************************)
(* Two calls of execute() in a row on the same file: a command (or a       *)
(* pipeline) with `> f`, then, once it has returned, one with `>> f`.      *)
(***************************************************************************)
TruncatingCommands == {<<tA, tGt, tF>>, <<tA, tPipe, tA, tGt, tF>>}
AppendingCommands == {<<tA, tGtGt, tF>>, <<tA, tPipe, tA, tGtGt, tF>>}

InitRedirect ==
    /\ pc = "call"
    /\ command \in TruncatingCommands
    /\ directory = DirOk
    /\ timeout \in Timeouts
    /\ env = EnvNames
    /\ path = "none"
    /\ parsed = <<>>
    /\ stageIdx = 0
    /\ procs = <<>>
    /\ processes = <<>>
    /\ result = <<>>
    /\ timedOut = FALSE
    /\ allowed = <<>>
    /\ compiled_patterns = <<>>
    /\ killing = NoFallback
    /\ handles = <<>>
    /\ fs = NoFilesTouched
    /\ written = <<>>
    /\ first_stdin = <<>>
    /\ SetupSignalHandlers(PythonDefaults)

\* the first call has returned with its output written: the second call
CallAgain ==
    /\ pc = "done"
    /\ command \in TruncatingCommands
    /\ Len(written) = 1
    /\ command' \in AppendingCommands
    /\ pc' = "call"
    /\ path' = "none"
    /\ parsed' = <<>>
    /\ stageIdx' = 0
    /\ procs' = <<>>
    /\ processes' = <<>>
    /\ result' = <<>>
    /\ timedOut' = FALSE
    /\ handles' = <<>>
    /\ UNCHANGED <<directory, timeout, env, compiled_patterns, killing, allowed, fs, written, supervisor>>

NextRedirect ==
    \/ Execute
    \/ Spawn
    \/ CommunicateReturns
    \/ CommunicateTimesOut
    \/ CommunicateRaises
    \/ CallAgain

SpecRedirect == InitRedirect /\ [][NextRedirect]_vars

\* Pipelines with redirections on their stages: on the last stage (> and
\* >>), on the first stage (< and >), and on two stages with the same tokens.
RedirectedPipelines ==
    {<<tA, tPipe, tA, tA, tGt, tF>>,
     <<tA, tPipe, tA, tA, tGtGt, tF>>,
     <<tA, tLt, tF, tPipe, tA, tA>>,
     <<tA, tGt, tF, tPipe, tA, tA>>,
     <<tA, tGt, tF, tPipe, tA, tGt, tF>>,
     <<tA, tLt, tF, tPipe, tA, tLt, tF>>}

InitStages ==
    /\ pc = "call"
    /\ command \in RedirectedPipelines
    /\ directory = DirOk
    /\ timeout \in Timeouts
    /\ env = EnvNames
    /\ path = "none"
    /\ parsed = <<>>
    /\ stageIdx = 0
    /\ procs = <<>>
    /\ processes = <<>>
    /\ result = <<>>
    /\ timedOut = FALSE
    /\ allowed = <<>>
    /\ compiled_patterns = <<>>
    /\ killing = NoFallback
    /\ handles = <<>>
    /\ fs = NoFilesTouched
    /\ written = <<>>
    /\ first_stdin = <<>>
    /\ SetupSignalHandlers(PythonDefaults)

SpecStages == InitStages /\ [][Next]_vars

(***************************************************************************)
(* The validator on its own: is_command_allowed(name) for every name and   *)
(* policy of a bounded set.                                                *)
(***************************************************************************)
NameChars == {"a", "b", " "}
Names == UNION {[1..n -> NameChars] : n \in 0..MaxNameLen}

\* ALLOW_PATTERNS="a"; ALLOW_PATTERNS="^a$"; ALLOW_COMMANDS="b", ALLOW_PATTERNS="a.*"
EnvPrefixA   == [allow |-> {}, patterns |-> << <<Lit("a")>> >>]
EnvAnchoredA == [allow |-> {}, patterns |-> << <<Bol, Lit("a"), Eol>> >>]
EnvMixed     == [allow |-> {tB}, patterns |-> << <<Lit("a"), DotStar>>, <<Dot, Lit("b"), Eol>> >>]
ValidatorEnvs == {EnvEmpty, EnvNames, EnvNotB, EnvPrefixA, EnvAnchoredA, EnvMixed}

InitValidator ==
    /\ pc = "validate"
    /\ command \in {<<name>> : name \in Names}
    /\ env \in ValidatorEnvs
    /\ directory = DirOk
    /\ timeout = <<>>
    /\ path = "none"
    /\ parsed = <<>>
    /\ stageIdx = 0
    /\ procs = <<>>
    /\ processes = <<>>
    /\ result = <<>>
    /\ timedOut = FALSE
    /\ allowed = <<>>
    /\ compiled_patterns = <<>>
    /\ killing = NoFallback
    /\ handles = <<>>
    /\ fs = NoFilesTouched
    /\ written = <<>>
    /\ first_stdin = <<>>
    /\ SetupSignalHandlers(PythonDefaults)

IsCommandAllowedCall ==
    /\ pc = "validate"
    /\ allowed' = <<IsCommandAllowed(command[1], env)>>
    /\ pc' = "validated"
    /\ UNCHANGED <<inputs, supervisor, path, parsed, stageIdx, procs, processes, result, timedOut>>
    /\ UNCHANGED <<handles, fs, written>>

NextValidator == IsCommandAllowedCall

SpecValidator == InitValidator /\ [][NextValidator]_vars

(***************************************************************************)
(* ProcessManager.execute_pipeline(commands, first_stdin, timeout=...),    *)
(* with last_stdout left at its default None.  parsed holds `commands`,    *)
(* procs every process the manager created, processes the local list.      *)
(***************************************************************************)
Stderrs == {<<>>, <<" ">>, <<"e">>}
PipelineCommands == {[k \in 1..n |-> IF k % 2 = 1 THEN tA ELSE tB] : n \in 0..MaxStages}
FirstStdins == {<<>>} \cup {<<b>> : b \in Outputs}

\* a process of the manager: what it was given on stdin (<<>>: nothing, and
\* the pipe was left open; <<bytes>>: the bytes, then end of file), what it
\* wrote, and the signals delivered to it
PMProcess(argv, stage, killable) ==
    NewProcess(argv, stage, killable) @@
        [stdin |-> <<>>, stdout |-> <<>>, stderr |-> <<>>, sent |-> <<>>]

\* a raised exception: its type and str(e) (a text, or a text built from a code)
Exc(type, kind, text, code) == [type |-> type, kind |-> kind, text |-> text, code |-> code]

InitPM ==
    /\ pc = "pm_call"
    /\ parsed \in PipelineCommands
    /\ first_stdin \in FirstStdins
    /\ timeout \in Timeouts
    /\ command = <<>>
    /\ directory = DirOk
    /\ env = EnvEmpty
    /\ path = "pipeline"
    /\ stageIdx = 0
    /\ procs = <<>>
    /\ processes = <<>>
    /\ result = <<>>
    /\ timedOut = FALSE
    /\ allowed = <<>>
    /\ compiled_patterns = <<>>
    /\ killing = NoFallback
    /\ handles = <<>>
    /\ fs = NoFilesTouched
    /\ written = <<>>
    /\ SetupSignalHandlers(PythonDefaults)

signals == <<installed, original, handled>>
unused == <<command, directory, env, compiled_patterns, killing, path, allowed, handles, fs, written>>

\* process.kill(): asyncio raises ProcessLookupError once the transport of
\* the process is finished (its wait() or communicate() has completed),
\* os.kill raises PermissionError for a process that cannot be signalled,
\* and a process that has a return code is left alone
ProcessKill(p) ==
    IF p.awaited THEN Raise(Exc("ProcessLookupError", "EmptyString", <<>>, <<>>))
    ELSE IF p.returncode # <<>> THEN Ok(p)
    ELSE IF ~p.killable THEN Raise(Exc("PermissionError", "OperationNotPermitted", <<>>, <<>>))
    ELSE Ok([Killed(p) EXCEPT !.sent = Append(@, "SIGKILL")])

\* _kill_process(): nothing for a process with a return code; terminate,
\* poll, then kill and wait_for(process.wait(), 1.0); every exception is
\* logged.  termOk: the process ends on SIGTERM within the polls; fin: the
\* transport of the process is finished by the end (wait() has completed)
KillProcess(p, termOk, fin) ==
    IF p.returncode # <<>> \/ ~p.killable THEN p
    ELSE IF termOk
    THEN [p EXCEPT !.state = "exited", !.returncode = <<0 - 15>>, !.awaited = fin,
                   !.sent = Append(@, "SIGTERM")]
    ELSE [p EXCEPT !.state = "exited", !.returncode = <<0 - 9>>, !.awaited = fin,
                   !.sent = @ \o <<"SIGTERM", "SIGKILL">>]

\* `except ...: process.kill(); raise`: the process afterwards and the
\* exception that leaves the loop (the one kill() raised, if it raised)
KillAndRaise(p, exc) ==
    LET k == ProcessKill(p)
    IN IF k.ok THEN [proc |-> k.val, exc |-> exc] ELSE [proc |-> p, exc |-> k.err]

\* prev_stdout when stage stageIdx is run
PrevStdout == IF stageIdx = 1 THEN first_stdin ELSE <<procs[stageIdx - 1].stdout>>

\* `stdin=prev_stdout.decode() if prev_stdout else None`, then
\* `stdin_bytes = stdin.encode() if stdin else None`, then
\* communicate(input=stdin_bytes): with None nothing is written and the
\* pipe is not closed
StdinArg(prev) == IF Truthy(prev) THEN prev ELSE <<>>

\* prev_stdout.decode() is strict
DecodeRaises(prev) == Truthy(prev) /\ ~Utf8Valid(prev[1])

\* final_stderr += stderr, over the stages that returned
RECURSIVE FinalStderr(_, _)
FinalStderr(ps, k) == IF k = 0 THEN <<>> ELSE FinalStderr(ps, k - 1) \o ps[k].stderr

\* error_msg = stderr.decode("utf-8", errors="replace").strip(), or the
\* generic text when that is empty
FailureMessage(stderr, c) ==
    LET t == Strip(DecodeReplace(stderr))
    IN IF t = <<>> THEN Exc("ValueError", "CommandFailedWithExitCode", <<>>, <<c>>)
       ELSE Exc("ValueError", "StderrText", t, <<>>)

\* faulty variant: the loop does not advance to the next command
NextStage_m(i) == i

\* `for i, cmd in enumerate(commands)`
NextStage(i) == i + 1

ExecutePipelineCall ==
    /\ pc = "pm_call"
    /\ IF parsed = <<>>
       THEN /\ result' = <<Raise(Exc("ValueError", "NoCommandsProvided", <<>>, <<>>))>>
            /\ pc' = "pm_done"
            /\ UNCHANGED stageIdx
       ELSE /\ stageIdx' = 1
            /\ pc' = "pm_create"
            /\ UNCHANGED result
    /\ UNCHANGED <<unused, signals, registry, first_stdin, timeout, parsed, procs,
                   processes, timedOut>>

\* create_process: the process is tracked and appended to `processes`, or
\* ValueError leaves the loop
CreateProcess ==
    /\ pc = "pm_create"
    /\ \/ \E killable \in BOOLEAN :
            /\ procs' = Append(procs, PMProcess(parsed[stageIdx], stageIdx, killable))
            /\ registry' = registry \cup {Len(procs')}
            /\ processes' = Append(processes, Len(procs'))
            /\ pc' = "pm_communicate"
            /\ UNCHANGED result
       \/ /\ result' = <<Raise(Exc("ValueError", "FailedToCreateProcess", <<>>, <<>>))>>
          /\ pc' = "pm_cleanup"
          /\ UNCHANGED <<procs, registry, processes>>
    /\ UNCHANGED <<unused, signals, first_stdin, timeout, parsed, stageIdx, timedOut>>

\* execute_with_timeout returns: the process ended with code c, having
\* written out and err
ExecuteWithTimeoutReturns ==
    /\ pc = "pm_communicate"
    /\ ~DecodeRaises(PrevStdout)
    /\ \E c \in 0..MaxExit, out \in Outputs, err \in Stderrs :
         LET p == [Exited(procs[cur], c, Utf8Valid(out)) EXCEPT
                       !.stdin = StdinArg(PrevStdout), !.stdout = out, !.stderr = err]
             ps == [procs EXCEPT ![cur] = p]
             a == KillAndRaise(p, FailureMessage(err, c))
         IN IF c # 0
            THEN /\ procs' = [procs EXCEPT ![cur] = a.proc]
                 /\ result' = <<Raise(a.exc)>>
                 /\ pc' = "pm_cleanup"
                 /\ UNCHANGED stageIdx
            ELSE IF stageIdx = Len(parsed)
            THEN /\ procs' = ps
                 /\ result' = <<Ok([stdout |-> out, stderr |-> FinalStderr(ps, Len(ps)),
                                    returncode |-> c])>>
                 /\ pc' = "pm_cleanup"
                 /\ UNCHANGED stageIdx
            ELSE /\ procs' = ps
                 /\ stageIdx' = NextStage(stageIdx)
                 /\ pc' = "pm_create"
                 /\ UNCHANGED result
    /\ UNCHANGED <<unused, signals, registry, first_stdin, timeout, parsed, processes,
                   timedOut>>

\* wait_for raises asyncio.TimeoutError (`if timeout:` held): _kill_process,
\* re-raise, _kill_process again in `except Exception` (which finds the
\* return code set, or fails again), then `process.kill(); raise`
ExecuteWithTimeoutTimesOut ==
    /\ pc = "pm_communicate"
    /\ ~DecodeRaises(PrevStdout)
    /\ SingleHasTimeout(timeout)
    /\ \E termOk \in BOOLEAN, fin \in BOOLEAN :
         LET p == [KillProcess(procs[cur], termOk, fin) EXCEPT !.stdin = StdinArg(PrevStdout)]
             a == KillAndRaise(p, Exc("TimeoutError", "EmptyString", <<>>, <<>>))
         IN /\ procs' = [procs EXCEPT ![cur] = a.proc]
            /\ result' = <<Raise(a.exc)>>
    /\ timedOut' = TRUE
    /\ pc' = "pm_cleanup"
    /\ UNCHANGED <<unused, signals, registry, first_stdin, timeout, parsed, stageIdx,
                   processes>>

\* another exception inside the inner try: prev_stdout.decode() raises
\* UnicodeDecodeError before execute_with_timeout is called, or communicate
\* raises and execute_with_timeout runs _kill_process and re-raises; then
\* `process.kill(); raise`
ExecuteWithTimeoutRaises ==
    /\ pc = "pm_communicate"
    /\ IF DecodeRaises(PrevStdout)
       THEN LET a == KillAndRaise(procs[cur], Exc("UnicodeDecodeError", "InvalidStartByte", <<>>, <<>>))
            IN /\ procs' = [procs EXCEPT ![cur] = a.proc]
               /\ result' = <<Raise(a.exc)>>
       ELSE \E termOk \in BOOLEAN, fin \in BOOLEAN :
              LET p == [KillProcess(procs[cur], termOk, fin) EXCEPT !.stdin = StdinArg(PrevStdout)]
                  a == KillAndRaise(p, Exc("Exception", "CommunicateRaised", <<>>, <<>>))
              IN /\ procs' = [procs EXCEPT ![cur] = a.proc]
                 /\ result' = <<Raise(a.exc)>>
    /\ pc' = "pm_cleanup"
    /\ UNCHANGED <<unused, signals, registry, first_stdin, timeout, parsed, stageIdx,
                   processes, timedOut>>

\* faulty variant: an exception of kill() leaves cleanup_processes
KillErrorCaught_m == FALSE

\* `try: process.kill() ... except Exception as e: logging.warning(...)`
KillErrorCaught == TRUE

\* the loop of cleanup_processes over list from position i: every process
\* without a return code is killed and a task awaiting it is created
RECURSIVE CleanupSweep(_, _, _)
CleanupSweep(ps, list, i) ==
    IF i > Len(list) THEN [procs |-> ps, raised |-> FALSE]
    ELSE LET k == list[i]
             r == ProcessKill(ps[k])
         IN IF ps[k].returncode # <<>> THEN CleanupSweep(ps, list, i + 1)
            ELSE IF r.ok THEN CleanupSweep([ps EXCEPT ![k] = r.val], list, i + 1)
            ELSE IF KillErrorCaught THEN CleanupSweep(ps, list, i + 1)
            ELSE [procs |-> ps, raised |-> TRUE]

\* `finally: await self.cleanup_processes(processes)`, the loop
CleanupProcessesKill ==
    /\ pc = "pm_cleanup"
    /\ LET sw == CleanupSweep(procs, processes, 1)
       IN /\ procs' = sw.procs
          /\ IF sw.raised
             THEN /\ result' = <<Raise(Exc("PermissionError", "OperationNotPermitted", <<>>, <<>>))>>
                  /\ pc' = "pm_done"
             ELSE /\ pc' = "pm_reap"
                  /\ UNCHANGED result
    /\ UNCHANGED <<unused, signals, registry, first_stdin, timeout, parsed, stageIdx,
                   processes, timedOut>>

\* `await asyncio.wait(cleanup_tasks, timeout=5)`: it returns when every
\* task is done or after 5 seconds, whichever is first, and does not raise;
\* reaped: the killed processes whose wait() completed by then
CleanupProcessesWait ==
    /\ pc = "pm_reap"
    /\ \E reaped \in SUBSET {k \in 1..Len(procs) : InList(k, processes) /\ procs[k].state = "killed"} :
         procs' = [k \in 1..Len(procs) |-> IF k \in reaped THEN Waited(procs[k]) ELSE procs[k]]
    /\ pc' = "pm_done"
    /\ UNCHANGED <<unused, signals, registry, first_stdin, timeout, parsed, stageIdx,
                   processes, result, timedOut>>

NextPM ==
    \/ ExecutePipelineCall
    \/ CreateProcess
    \/ ExecuteWithTimeoutReturns
    \/ ExecuteWithTimeoutTimesOut
    \/ ExecuteWithTimeoutRaises
    \/ CleanupProcessesKill
    \/ CleanupProcessesWait

SpecPM == InitPM /\ [][NextPM]_vars

(***************************************************************************)
(* The ProcessManager over its lifetime: processes are created through     *)
(* create_process and end by themselves, SIGINT or SIGTERM reaches the     *)
(* host process, the host calls cleanup_all, and the WeakSet drops         *)
(* processes that nothing refers to any more.                              *)
(***************************************************************************)
\* what was installed before the manager: nothing by the host program, or
\* SIGINT ignored and a handler of the host program for SIGTERM
PreviousHandlers ==
    {PythonDefaults, [s \in Signals |-> IF s = "SIGINT" THEN "SIG_IGN" ELSE "callable"]}

InitSupervisor ==
    /\ pc = "sup_idle"
    /\ \E previous \in PreviousHandlers : SetupSignalHandlers(previous)
    /\ procs = <<>>
    /\ processes = <<>>
    /\ parsed = <<>>
    /\ first_stdin = <<>>
    /\ timeout = <<>>
    /\ command = <<>>
    /\ directory = DirOk
    /\ env = EnvEmpty
    /\ path = "none"
    /\ stageIdx = 0
    /\ result = <<>>
    /\ timedOut = FALSE
    /\ allowed = <<>>
    /\ compiled_patterns = <<>>
    /\ killing = NoFallback
    /\ handles = <<>>
    /\ fs = NoFilesTouched
    /\ written = <<>>

call == <<parsed, first_stdin, timeout, stageIdx, result, timedOut>>

\* cleanup_processes awaits only `if cleanup_tasks:`, that is when its loop
\* has killed a process of its list
CleanupSuspended ==
    /\ pc = "sup_reap"
    /\ \E i \in 1..Len(processes) : procs[processes[i]].state = "killed"

\* create_process, also while cleanup_all is suspended in its wait
CreateProcessCall ==
    /\ pc = "sup_idle" \/ CleanupSuspended
    /\ Len(procs) < MaxProcs
    /\ \E killable \in BOOLEAN : procs' = Append(procs, PMProcess(tA, 0, killable))
    /\ registry' = registry \cup {Len(procs')}
    /\ UNCHANGED <<unused, call, signals, pc, processes>>

\* a running process ends (with code 0, or by the signal it was sent) and
\* its owner collects the exit code
ProcessExits ==
    /\ \E k \in 1..Len(procs) :
         /\ procs[k].state = "running"
         /\ procs' = [procs EXCEPT ![k] =
                         Exited(@, IF procs[k].sent = <<>> THEN 0 ELSE 0 - 15, TRUE)]
    /\ UNCHANGED <<unused, call, supervisor, pc, processes>>

\* `if process.returncode is None: process.terminate()` inside try/except
Terminate(p) ==
    IF p.returncode = <<>> /\ p.killable THEN [p EXCEPT !.sent = Append(@, "SIGTERM")] ELSE p

\* handle_termination(signum, _): the sweep, the restoration of the saved
\* handler when it is truthy, and os.kill(os.getpid(), signum), which
\* reaches whatever is installed by then
HandleTermination ==
    /\ Len(handled) < MaxSignals
    /\ \E signum \in Signals :
         /\ installed[signum] = "handle_termination"
         /\ procs' = [k \in 1..Len(procs) |->
                         IF k \in registry THEN Terminate(procs[k]) ELSE procs[k]]
         /\ installed' = IF HandlerIsTruthy(original[signum])
                         THEN [installed EXCEPT ![signum] = original[signum]]
                         ELSE installed
         /\ handled' = Append(handled,
                [signum |-> signum,
                 swept |-> \A k \in registry :
                              (procs[k].returncode = <<>> /\ procs[k].killable) =>
                                  Len(procs'[k].sent) = Len(procs[k].sent) + 1,
                 redelivered |-> installed'[signum]])
    /\ UNCHANGED <<unused, call, registry, original, pc, processes>>

\* list(self._processes): the tracked processes in the order the set yields
ListsOf(S) ==
    {l \in [1..Cardinality(S) -> S] : \A i, j \in 1..Cardinality(S) : l[i] = l[j] => i = j}

\* cleanup_all: `if self._processes:`, list(), the loop of cleanup_processes
CleanupAllKill ==
    /\ pc = "sup_idle"
    /\ registry # {}
    /\ \E l \in ListsOf(registry) :
         LET sw == CleanupSweep(procs, l, 1)
         IN /\ processes' = l
            /\ procs' = sw.procs
            /\ pc' = IF sw.raised THEN "sup_raised" ELSE "sup_reap"
    /\ UNCHANGED <<unused, call, supervisor>>

\* cleanup_all: the bounded wait of cleanup_processes returns, then
\* self._processes.clear()
CleanupAllWait ==
    /\ pc = "sup_reap"
    /\ \E reaped \in SUBSET {k \in 1..Len(procs) : InList(k, processes) /\ procs[k].state = "killed"} :
         procs' = [k \in 1..Len(procs) |-> IF k \in reaped THEN Waited(procs[k]) ELSE procs[k]]
    /\ registry' = {}
    /\ processes' = <<>>
    /\ pc' = "sup_idle"
    /\ UNCHANGED <<unused, call, signals, first_stdin>>

\* the WeakSet loses a process that has ended and that no list refers to
CollectGarbage ==
    /\ \E k \in registry :
         /\ procs[k].returncode # <<>>
         /\ ~InList(k, processes)
         /\ registry' = registry \ {k}
    /\ UNCHANGED <<unused, call, signals, first_stdin, pc, procs, processes>>

NextSupervisor ==
    \/ CreateProcessCall
    \/ ProcessExits
    \/ HandleTermination
    \/ CleanupAllKill
    \/ CleanupAllWait
    \/ CollectGarbage

SpecSupervisor == InitSupervisor /\ [][NextSupervisor]_vars

\* the event loop resumes cleanup_all when its wait is over
SpecSupervisorLive == SpecSupervisor /\ WF_vars(CleanupAllWait)

(***************************************************************************)
(* Shell command string (CommandPreprocessor.create_shell_command) and the *)
(* POSIX tokenization of it by the shell that runs it.                     *)
(***************************************************************************)
\* shlex._find_unsafe: a character outside [a-zA-Z0-9@%+=:,./-]
SafeChars == {"a", "b", "f"}

\* s.replace("'", "'\"'\"'")
RECURSIVE ReplaceQuotes(_)
ReplaceQuotes(s) ==
    IF s = <<>> THEN <<>>
    ELSE IF Head(s) = "'" THEN <<"'", "\"", "'", "\"", "'">> \o ReplaceQuotes(Tail(s))
    ELSE <<Head(s)>> \o ReplaceQuotes(Tail(s))

\* faulty variant: the argument is not quoted
ShlexQuote_m(s) == s

\* shlex.quote(s)
ShlexQuote(s) ==
    IF s = <<>> THEN <<"'", "'">>
    ELSE IF \A i \in 1..Len(s) : s[i] \in SafeChars THEN s
    ELSE <<"'">> \o ReplaceQuotes(s) \o <<"'">>

\* " ".join(args)
RECURSIVE JoinWithSpace(_)
JoinWithSpace(args) ==
    IF args = <<>> THEN <<>>
    ELSE IF Len(args) = 1 THEN args[1]
    ELSE args[1] \o <<" ">> \o JoinWithSpace(Tail(args))

CreateShellCommand(cmd) ==
    IF cmd = <<>> THEN <<>>
    ELSE JoinWithSpace([k \in 1..Len(cmd) |->
             IF IsSpace(cmd[k]) THEN <<"'">> \o cmd[k] \o <<"'">>
             ELSE ShlexQuote(Strip(cmd[k]))])

\* the characters a POSIX shell reads as (part of) an operator when unquoted
ShellMetaChars == {"|", ";", "&", "<", ">"}

\* POSIX token recognition of s: blanks separate words, '...' and "..."
\* quote their content, an unquoted operator character is an operator
RECURSIVE ShellWordsFrom(_, _, _, _)
ShellWordsFrom(s, word, mode, acc) ==
    LET flushed == IF word = <<>> THEN acc
                   ELSE Append(acc, [text |-> word[1], op |-> FALSE])
        started == IF word = <<>> THEN << <<>> >> ELSE word
        c == Head(s)
    IN
    IF s = <<>> THEN flushed
    ELSE IF mode = "single" THEN
        IF c = "'" THEN ShellWordsFrom(Tail(s), word, "plain", acc)
        ELSE ShellWordsFrom(Tail(s), <<Append(word[1], c)>>, mode, acc)
    ELSE IF mode = "double" THEN
        IF c = "\"" THEN ShellWordsFrom(Tail(s), word, "plain", acc)
        ELSE ShellWordsFrom(Tail(s), <<Append(word[1], c)>>, mode, acc)
    ELSE IF c = "'" THEN ShellWordsFrom(Tail(s), started, "single", acc)
    ELSE IF c = "\"" THEN ShellWordsFrom(Tail(s), started, "double", acc)
    ELSE IF IsSpaceChar(c) THEN ShellWordsFrom(Tail(s), <<>>, mode, flushed)
    ELSE IF c \in ShellMetaChars THEN
        ShellWordsFrom(Tail(s), <<>>, mode, Append(flushed, [text |-> <<c>>, op |-> TRUE]))
    ELSE ShellWordsFrom(Tail(s), <<Append(started[1], c)>>, mode, acc)

ShellWords(s) == ShellWordsFrom(s, <<>>, "plain", <<>>)

(***************************************************************************)
(* The helpers called on their own: each of validate_directory,            *)
(* preprocess_command + clean_command, parse_command, validate_pipeline    *)
(* and create_shell_command is applied once to the drawn arguments.        *)
(***************************************************************************)
tAB     == <<"a", "|", "b">>
tASemi  == <<"a", ";">>
tQuoted == <<"a", "'", "b">>

PureTokens == {tA, tPipe, tSemi, tOr, tGt, tGtGt, tLt, tGlued, tAB, tASemi,
               tPadA, tBlank, tEmpty, tQuoted}

PureCommands == UNION {[1..n -> PureTokens] : n \in 0..MaxLen}

\* what the operating system can answer about a directory argument
AllDirs ==
    {d \in [given : BOOLEAN, abs : BOOLEAN, exists : BOOLEAN, isdir : BOOLEAN, access : BOOLEAN] :
        /\ ~d.given => ~d.abs /\ ~d.exists
        /\ ~d.exists => ~d.isdir /\ ~d.access}

InitPure ==
    /\ pc = "fn_call"
    /\ \/ command \in PureCommands /\ directory = DirOk
       \/ command = <<tA>> /\ directory \in AllDirs
    /\ env = EnvNames
    /\ timeout = <<>>
    /\ path = "none"
    /\ parsed = <<>>
    /\ stageIdx = 0
    /\ procs = <<>>
    /\ processes = <<>>
    /\ result = <<>>
    /\ timedOut = FALSE
    /\ allowed = <<>>
    /\ compiled_patterns = <<>>
    /\ killing = NoFallback
    /\ handles = <<>>
    /\ fs = NoFilesTouched
    /\ written = <<>>
    /\ first_stdin = <<>>
    /\ SetupSignalHandlers(PythonDefaults)

\* the helper returned (or raised): nothing of the arguments has changed
Returns ==
    /\ pc' = "fn_done"
    /\ UNCHANGED <<inputs, supervisor, path, parsed, stageIdx, procs, processes, timedOut>>
    /\ UNCHANGED <<allowed, handles, fs, written>>

ValidateDirectoryCall ==
    /\ pc = "fn_call"
    /\ result' = <<[fn |-> "validate_directory", out |-> ValidateDirectory(directory)]>>
    /\ Returns

PreprocessCommandCall ==
    /\ pc = "fn_call"
    /\ result' = <<[fn |-> "preprocess_command",
                    out |-> [normalized |-> PreprocessCommand(command),
                             cleaned |-> CleanCommand(PreprocessCommand(command))]]>>
    /\ Returns

ParseCommandCall ==
    /\ pc = "fn_call"
    /\ result' = <<[fn |-> "parse_command", out |-> ParseCommand(command)]>>
    /\ Returns

ValidatePipelineCall ==
    /\ pc = "fn_call"
    /\ result' = <<[fn |-> "validate_pipeline", out |-> ValidatePipeline(command, env)]>>
    /\ Returns

ProcessRedirectionsCall ==
    /\ pc = "fn_call"
    /\ result' = <<[fn |-> "process_redirections", out |-> ProcessRedirections(command)]>>
    /\ Returns

CreateShellCommandCall ==
    /\ pc = "fn_call"
    /\ result' = <<[fn |-> "create_shell_command", out |-> CreateShellCommand(command)]>>
    /\ Returns

NextPure ==
    \/ ValidateDirectoryCall
    \/ PreprocessCommandCall
    \/ ParseCommandCall
    \/ ProcessRedirectionsCall
    \/ ValidatePipelineCall
    \/ CreateShellCommandCall

SpecPure == InitPure /\ [][NextPure]_vars

(***************************************************************************)
(* ProcessManager.execute_with_timeout on one process, step by step: the   *)
(* await of communicate, and _kill_process with its terminate, its polls,  *)
(* its kill and its bounded wait.  On a timeout _kill_process runs in the  *)
(* inner handler and again in `except Exception`.                          *)
(***************************************************************************)
\* `for _ in range(5)`
Polls == 5

\* faulty variant: an error logged by the cleanup is raised in place of the original
Reraised_m(exc, logged) == IF logged # <<>> THEN logged[1] ELSE exc

\* `raise` / `raise e`: the exception communicate raised
Reraised(exc, logged) == exc

InitTimeout ==
    /\ pc = "ewt_communicate"
    /\ timeout \in Timeouts
    /\ first_stdin \in FirstStdins
    /\ \E killable \in BOOLEAN : procs = <<PMProcess(tA, 1, killable)>>
    /\ parsed = <<tA>>
    /\ stageIdx = 1
    /\ processes = <<>>
    /\ command = <<>>
    /\ directory = DirOk
    /\ env = EnvEmpty
    /\ path = "none"
    /\ result = <<>>
    /\ timedOut = FALSE
    /\ allowed = <<>>
    /\ compiled_patterns = <<>>
    /\ killing = NoFallback
    /\ handles = <<>>
    /\ fs = NoFilesTouched
    /\ written = <<>>
    /\ SetupSignalHandlers(PythonDefaults)

\* what no step of execute_with_timeout changes
Untouched ==
    UNCHANGED <<command, directory, env, compiled_patterns, path, allowed, handles, fs, written,
                signals, registry, first_stdin, timeout, parsed, stageIdx, processes>>

\* communicate returns the output of the process that has ended
CommunicateDone ==
    /\ pc = "ewt_communicate"
    /\ \E c \in 0..MaxExit, out \in Outputs, err \in Stderrs :
         /\ procs' = [procs EXCEPT ![1] = [Exited(@, c, Utf8Valid(out)) EXCEPT
                          !.stdin = StdinArg(first_stdin), !.stdout = out, !.stderr = err]]
         /\ result' = <<Ok([stdout |-> out, stderr |-> err, returncode |-> c])>>
    /\ pc' = "ewt_returned"
    /\ UNCHANGED <<killing, timedOut>>
    /\ Untouched

\* `if timeout:` held and wait_for raises asyncio.TimeoutError: the inner handler
CommunicateTimeout ==
    /\ pc = "ewt_communicate"
    /\ SingleHasTimeout(timeout)
    /\ killing' = [killing EXCEPT !.exc = <<Exc("TimeoutError", "EmptyString", <<>>, <<>>)>>,
                                  !.run = "inner"]
    /\ timedOut' = TRUE
    /\ pc' = "kp_enter"
    /\ UNCHANGED <<procs, result>>
    /\ Untouched

\* communicate raises another exception, the process running or (ended) with
\* a return code: the outer handler
CommunicateFails ==
    /\ pc = "ewt_communicate"
    /\ \E ended \in BOOLEAN :
         procs' = [procs EXCEPT ![1] = IF ended THEN [@ EXCEPT !.state = "exited", !.returncode = <<1>>]
                                       ELSE @]
    /\ killing' = [killing EXCEPT !.exc = <<Exc("Exception", "CommunicateRaised", <<>>, <<>>)>>,
                                  !.run = "outer"]
    /\ pc' = "kp_enter"
    /\ UNCHANGED <<result, timedOut>>
    /\ Untouched

\* _kill_process: return at once for a process with a return code, else
\* process.terminate(), which raises PermissionError (caught and logged) for
\* a process that cannot be signalled
KillProcessTerminate ==
    /\ pc = "kp_enter"
    /\ LET p == procs[1] IN
       IF p.returncode # <<>>
       THEN /\ pc' = "kp_return"
            /\ UNCHANGED <<procs, killing>>
       ELSE IF ~p.killable
       THEN /\ killing' = [killing EXCEPT !.calls = Append(@, "terminate"),
                               !.logged = <<Exc("PermissionError", "OperationNotPermitted", <<>>, <<>>)>>]
            /\ pc' = "kp_return"
            /\ UNCHANGED procs
       ELSE /\ killing' = [killing EXCEPT !.calls = Append(@, "terminate"), !.polls = 0]
            /\ procs' = [procs EXCEPT ![1].sent = Append(@, "SIGTERM")]
            /\ pc' = "kp_poll"
    /\ UNCHANGED <<result, timedOut>>
    /\ Untouched

\* one round of the loop: return when the return code is set, else
\* asyncio.sleep(0.1), during which the process may end on the SIGTERM
KillProcessPoll ==
    /\ pc = "kp_poll"
    /\ killing.polls < Polls
    /\ IF procs[1].returncode # <<>>
       THEN /\ pc' = "kp_return"
            /\ UNCHANGED <<procs, killing>>
       ELSE /\ killing' = [killing EXCEPT !.polls = @ + 1]
            /\ \E ends \in BOOLEAN :
                 procs' = [procs EXCEPT ![1] = IF ends THEN [@ EXCEPT !.state = "exited",
                                                                      !.returncode = <<0 - 15>>]
                                               ELSE @]
            /\ UNCHANGED pc
    /\ UNCHANGED <<result, timedOut>>
    /\ Untouched

\* after the loop: `if process.returncode is None: process.kill()`
KillProcessKill ==
    /\ pc = "kp_poll"
    /\ killing.polls = Polls
    /\ IF procs[1].returncode # <<>>
       THEN /\ pc' = "kp_return"
            /\ UNCHANGED <<procs, killing>>
       ELSE /\ killing' = [killing EXCEPT !.calls = Append(@, "kill")]
            /\ procs' = [procs EXCEPT ![1] = [Killed(@) EXCEPT !.sent = Append(@, "SIGKILL")]]
            /\ pc' = "kp_wait"
    /\ UNCHANGED <<result, timedOut>>
    /\ Untouched

\* wait_for(process.wait(), timeout=1.0): the exit is collected, or the
\* second passes and asyncio.TimeoutError is caught and logged
KillProcessWait ==
    /\ pc = "kp_wait"
    /\ \/ /\ procs' = [procs EXCEPT ![1] = Waited(@)]
          /\ UNCHANGED killing
       \/ /\ killing' = [killing EXCEPT !.logged = <<Exc("TimeoutError", "EmptyString", <<>>, <<>>)>>]
          /\ UNCHANGED procs
    /\ pc' = "kp_return"
    /\ UNCHANGED <<result, timedOut>>
    /\ Untouched

\* _kill_process has returned: `raise` of the inner handler enters the outer
\* one, `raise e` of the outer one leaves execute_with_timeout
KillProcessReturns ==
    /\ pc = "kp_return"
    /\ IF killing.run = "inner"
       THEN /\ killing' = [killing EXCEPT !.run = "outer"]
            /\ pc' = "kp_enter"
            /\ UNCHANGED result
       ELSE /\ result' = <<Raise(Reraised(killing.exc[1], killing.logged))>>
            /\ pc' = "ewt_raised"
            /\ UNCHANGED killing
    /\ UNCHANGED <<procs, timedOut>>
    /\ Untouched

NextTimeout ==
    \/ CommunicateDone
    \/ CommunicateTimeout
    \/ CommunicateFails
    \/ KillProcessTerminate
    \/ KillProcessPoll
    \/ KillProcessKill
    \/ KillProcessWait
    \/ KillProcessReturns

SpecTimeout == InitTimeout /\ [][NextTimeout]_vars

\* the event loop resumes the coroutine: a sleep of 0.1 s and a wait_for of
\* 1.0 s end, so every enabled step of the fallback is taken
SpecTimeoutLive ==
    /\ SpecTimeout
    /\ WF_vars(KillProcessTerminate)
    /\ WF_vars(KillProcessPoll)
    /\ WF_vars(KillProcessKill)
    /\ WF_vars(KillProcessWait)
    /\ WF_vars(KillProcessReturns)

(***************************************************************************)
(* One CommandValidator used for several validations under one policy:    *)
(* the allowed names are read from the environment at every call, the      *)
(* patterns from the cache that the first use of them fills.               *)
(***************************************************************************)
MaxCalls == 3

\* faulty variant: a filled cache is emptied by the next use
InitializePatternCache_m(cache, e) ==
    IF cache # <<>> THEN << <<>> >> ELSE <<e.patterns>>

\* faulty variant: the patterns are compiled again at every use
InitializePatternCache_r(cache, e) == <<e.patterns>>

\* _initialize_pattern_cache, as get_allowed_patterns calls it
InitializePatternCache(cache, e) ==
    IF cache # <<>> THEN cache ELSE <<e.patterns>>

\* the policy a call decides by: the names of the environment, the patterns of the cache
CachedPolicy(cache, e) ==
    [allow |-> e.allow, patterns |-> InitializePatternCache(cache, e)[1]]

\* is_command_allowed reaches get_allowed_patterns only past the name test
NameKnown(name, e) == Strip(name) \in GetAllowedCommands(e)

\* validate_pipeline validates a head that is not an allowed name, and so
\* reaches get_allowed_patterns
RECURSIVE PipelineConsults(_, _, _)
PipelineConsults(commands, current_cmd, e) ==
    IF commands = <<>>
    THEN current_cmd # <<>> /\ ~NameKnown(current_cmd[1], e)
    ELSE LET token == Head(commands) IN
         IF token = tPipe
         THEN IF current_cmd = <<>> THEN FALSE
              ELSE IF ~NameKnown(current_cmd[1], e) THEN TRUE
              ELSE PipelineConsults(Tail(commands), <<>>, e)
         ELSE IF token \in {tSemi, tAnd, tOr} THEN FALSE
         ELSE PipelineConsults(Tail(commands), Append(current_cmd, token), e)

SessionNames == {tA, tB, tPadA}
SessionCommands == {<<>>, <<tA>>, <<tB>>, <<tA, tPipe, tB>>, <<tB, tPipe, tA>>}

InitSession ==
    /\ pc = "session"
    /\ command = <<>>
    /\ env \in ValidatorEnvs
    /\ directory = DirOk
    /\ timeout = <<>>
    /\ path = "none"
    /\ parsed = <<>>
    /\ stageIdx = 0
    /\ procs = <<>>
    /\ processes = <<>>
    /\ result = <<>>
    /\ timedOut = FALSE
    /\ allowed = <<>>
    /\ compiled_patterns = <<>>
    /\ killing = NoFallback
    /\ handles = <<>>
    /\ fs = NoFilesTouched
    /\ written = <<>>
    /\ first_stdin = <<>>
    /\ SetupSignalHandlers(PythonDefaults)

\* the call answered: the decision joins the history of the session
Decided(fn, arg, decision, consulted) ==
    /\ result' = Append(result, [fn |-> fn, arg |-> arg, allowed |-> decision])
    /\ compiled_patterns' = IF consulted THEN InitializePatternCache(compiled_patterns, env)
                            ELSE compiled_patterns
    /\ UNCHANGED <<command, directory, timeout, env, killing, supervisor>>
    /\ UNCHANGED <<pc, path, parsed, stageIdx, procs, processes, timedOut>>
    /\ UNCHANGED <<allowed, handles, fs, written>>

SessionIsCommandAllowed ==
    /\ pc = "session"
    /\ Len(result) < MaxCalls
    /\ \E name \in SessionNames :
           Decided("is_command_allowed", <<name>>,
                   IsCommandAllowed(name, CachedPolicy(compiled_patterns, env)),
                   ~NameKnown(name, env))

SessionValidateCommand ==
    /\ pc = "session"
    /\ Len(result) < MaxCalls
    /\ \E cmd \in SessionCommands :
           Decided("validate_command", cmd,
                   ValidateCommand(cmd, CachedPolicy(compiled_patterns, env)).ok,
                   cmd # <<>> /\ (GetAllowedCommands(env) = {} \/ ~NameKnown(cmd[1], env)))

SessionValidatePipeline ==
    /\ pc = "session"
    /\ Len(result) < MaxCalls
    /\ \E cmd \in SessionCommands :
           Decided("validate_pipeline", cmd,
                   ValidatePipeline(cmd, CachedPolicy(compiled_patterns, env)).ok,
                   PipelineConsults(cmd, <<>>, env))

NextSession ==
    \/ SessionIsCommandAllowed
    \/ SessionValidateCommand
    \/ SessionValidatePipeline

SpecSession == InitSession /\ [][NextSession]_vars

\* The same validator while the environment is changed between calls
\* (os.environ is read again by _get_allowed_commands at every call).
ReconfigEnvs == {EnvNames, EnvNotB, EnvMixed}

InitReconfig ==
    /\ InitSession
    /\ env \in ReconfigEnvs

\* ALLOW_COMMANDS / ALLOWED_COMMANDS / ALLOW_PATTERNS are set to other values
ConfigChange ==
    /\ pc = "session"
    /\ env' \in ReconfigEnvs \ {env}
    /\ UNCHANGED <<command, directory, timeout, compiled_patterns, killing, supervisor>>
    /\ UNCHANGED <<pc, path, parsed, stageIdx, procs, processes, result, timedOut>>
    /\ UNCHANGED <<allowed, handles, fs, written>>

NextReconfig ==
    \/ SessionIsCommandAllowed
    \/ SessionValidateCommand
    \/ SessionValidatePipeline
    \/ ConfigChange

SpecReconfig == InitReconfig /\ [][NextReconfig]_vars

(***************************************************************************)
(* Vocabulary of the properties.                                           *)
(***************************************************************************)
\* the record execute() returned
res == result[1]

\* the normalized token stream of the request
Cleaned == CleanCommand(PreprocessCommand(command))

RejectedOperators == {tSemi, tAnd, tOr}

HasRejectedOperator ==
    LET c == Cleaned IN \E i \in 1..Len(c) : c[i] \in RejectedOperators

FirstRejected ==
    LET c == Cleaned IN
    CHOOSE i \in 1..Len(c) :
        c[i] \in RejectedOperators /\ \A j \in 1..(i - 1) : c[j] \notin RejectedOperators

IsPipelineRequest == InList(tPipe, Cleaned)

\* positions at which a stage of the request starts, and where it ends
StageStarts ==
    LET c == Cleaned IN {j \in 1..Len(c) : j = 1 \/ c[j - 1] = tPipe}

StageEnd(j) ==
    LET c == Cleaned IN
    CHOOSE e \in j..(Len(c) + 1) :
        /\ e = Len(c) + 1 \/ c[e] = tPipe
        /\ \A i \in j..(e - 1) : c[i] # tPipe

StageTokens(j) == SubSeq(Cleaned, j, StageEnd(j) - 1)

\* every stage that is closed by a "|" before position i is non-empty and
\* has an allowed first token
ClosedStagesPass(i) ==
    \A j \in StageStarts :
        StageEnd(j) < i => (Cleaned[j] # tPipe /\ IsCommandAllowed(Cleaned[j], env))

NoRejectedOperatorBefore(e) ==
    LET c == Cleaned IN \A i \in 1..(e - 1) : c[i] \notin RejectedOperators

PolicyIsEmpty == GetAllowedCommands(env) = {} /\ GetAllowedPatterns(env) = <<>>

DirectoryIsValid == ValidateDirectory(directory).ok

\* the process ended by itself (it was not killed)
RanToCompletion(p) == p.state = "exited" /\ p.returncode[1] >= 0

FinalStageRan == procs # <<>> /\ procs[cur].stage = Len(parsed) /\ RanToCompletion(procs[cur])


(***************************************************************************)
(* Properties.                                                             *)
(***************************************************************************)

\* the head of the command vector of the stage starting at j is not allowed
StageHeadNotAllowed(j) ==
    LET p == ParseCommand(StageTokens(j)) IN
    /\ p.ok
    /\ p.val.cmd # <<>>
    /\ ~IsCommandAllowed(p.val.cmd[1], env)

\* C1: a process is spawned for a stage only if the head of that stage's
\* command vector passed is_command_allowed under the policy, and if the
\* head of any stage of the request is not allowed no process is spawned
\* for the request at all.
C1_SpawnOnlyAllowedHeads ==
    /\ \A k \in 1..Len(procs) :
          procs[k].argv # <<>> => IsCommandAllowed(procs[k].argv[1], env)
    /\ (\E j \in StageStarts : StageHeadNotAllowed(j)) => procs = <<>>

C3_AllowedIffFullMatch ==
    pc = "validated" =>
        (allowed[1] <=>
            \/ Strip(command[1]) \in GetAllowedCommands(env)
            \/ \E k \in 1..Len(env.patterns) : ReFullMatch(env.patterns[k], Strip(command[1])))

\* the request is a command name followed by arguments, redirections and
\* further pipeline stages: its first token is no operator, it holds no
\* ";", "&&", "||" and, for a single command, its redirections parse
PlainRequest ==
    /\ Cleaned # <<>>
    /\ Cleaned[1] \notin (ShellOperators \cup RedirectionOperators)
    /\ ~HasRejectedOperator
    /\ ~IsPipelineRequest => ParseCommand(Cleaned).ok

\* C4 as stated: with a valid directory, a request whose command name is
\* not permitted by the policy returns status 1 and "Command not allowed:
\* <name>".
C4_NotAllowedAlways ==
    (pc = "done" /\ DirectoryIsValid /\ PlainRequest
        /\ ~IsCommandAllowed(Cleaned[1], env)) =>
        /\ res.status = 1
        /\ res.error.kind = "CommandNotAllowed"
        /\ Strip(res.error.arg) = Strip(Cleaned[1])

\* a single command whose tokens hold no shell operator and whose
\* redirections parse, run under a policy that is not empty and does not
\* allow the head of the extracted command vector, returns status 1 and
\* "Command not allowed: <trimmed head>" and spawns nothing
C4_SingleNotAllowed ==
    LET p == ParseCommand(Cleaned) IN
    (/\ pc = "done" /\ DirectoryIsValid /\ Cleaned # <<>> /\ ~IsPipelineRequest
     /\ \A i \in 1..Len(Cleaned) : Cleaned[i] \notin ShellOperators
     /\ p.ok /\ p.val.cmd # <<>>
     /\ ~PolicyIsEmpty
     /\ ~IsCommandAllowed(p.val.cmd[1], env)) =>
        /\ procs = <<>>
        /\ res.status = 1
        /\ res.error = Msg("CommandNotAllowed", Strip(p.val.cmd[1]))

\* a pipeline run under a policy that is not empty, in which the first token
\* of a stage is not allowed while every earlier stage is non-empty with an
\* allowed first token and no ";", "&&", "||" precedes the end of that
\* stage, returns status 1 and "Command not allowed: <that token>" and
\* spawns nothing
C4_PipelineNotAllowed ==
    (pc = "done" /\ DirectoryIsValid /\ ~PolicyIsEmpty /\ IsPipelineRequest) =>
    \A j \in StageStarts :
        (/\ Cleaned[j] # tPipe
         /\ ~IsCommandAllowed(Cleaned[j], env)
         /\ \A i \in StageStarts :
               i < j => (Cleaned[i] # tPipe /\ IsCommandAllowed(Cleaned[i], env))
         /\ NoRejectedOperatorBefore(StageEnd(j))) =>
            /\ procs = <<>>
            /\ res.status = 1
            /\ res.error = Msg("CommandNotAllowed", Cleaned[j])

\* C4 amended: with a valid directory and a policy that is not empty,
\* "Command not allowed: <name>" with status 1 is returned, and no process
\* is spawned, for a single command whose name is not allowed and for a
\* pipeline whose first offending stage name is not allowed.
C4_NotAllowedRejected == C4_SingleNotAllowed /\ C4_PipelineNotAllowed

\* C4 witness: a pipeline whose second stage is not allowed was rejected
\* with the name of that stage.
C4_Witness ==
    /\ pc = "done"
    /\ DirectoryIsValid
    /\ \E j \in StageStarts :
          /\ j > 1
          /\ ~PolicyIsEmpty
          /\ res.error = Msg("CommandNotAllowed", Cleaned[j])
          /\ IsCommandAllowed(Cleaned[1], env)

\* C5: with an empty policy every request (single command or pipeline) is
\* rejected, and never with "Command not allowed": the policy error it gets
\* is the distinct "No commands are allowed".
C5_NoPolicyError ==
    (pc = "done" /\ PolicyIsEmpty /\ DirectoryIsValid /\ Cleaned # <<>>) =>
        /\ res.status = 1
        /\ res.error # NoError
        /\ res.error.kind # "CommandNotAllowed"

\* every process of the call runs a command (its vector is not empty) and
\* can be signalled
AllKillable == \A k \in 1..Len(procs) : procs[k].argv # <<>> /\ procs[k].killable

\* C6: when a process of the call (one that runs a command and can be
\* killed) did not finish within the timeout t > 0, the returned record has status -1 and the
\* message "timed out after <t> seconds" with the configured value.
C6_TimeoutResult ==
    (pc = "done" /\ timedOut /\ AllKillable /\ timeout # <<0>>) =>
        /\ res.status = 0 - 1
        /\ res.error = Msg("TimedOutAfterSeconds", timeout)

\* C7: when execute() returns after a timeout t > 0, every process the call
\* spawned (each of which runs a command and can be killed) has terminated
\* and has been awaited.
C7_TimeoutProcessesReaped ==
    (pc = "done" /\ timedOut /\ AllKillable /\ timeout # <<0>>) =>
        \A k \in 1..Len(procs) : procs[k].state = "exited" /\ procs[k].awaited

\* C8: execute() never propagates an exception to its caller.
C8_NeverPropagates == pc # "raised"

\* C9: every record execute() returns satisfies error != None => status != 0.
C9_ErrorImpliesNonZero ==
    pc = "done" => (result # <<>> /\ (res.error # NoError => res.status # 0))

\* C9 witness: an error record returned after a process had been spawned.
C9_Witness == pc = "done" /\ res.error # NoError /\ procs # <<>>

C11_HandlesClosedOnce ==
    (pc = "done" /\ procs # <<>> /\ AllKillable) =>
        \A i \in 1..Len(handles) : handles[i].closed = 1

\* C12: when execute() returns an error record after it had spawned a
\* process (each process of the call runs a command and can be killed),
\* every process of the call has been killed or has exited, and has been
\* awaited: none is still running or unreaped.
C12_ErrorAfterSpawnReaps ==
    (pc = "done" /\ res.error # NoError /\ procs # <<>> /\ AllKillable) =>
        \A k \in 1..Len(procs) : procs[k].state = "exited" /\ procs[k].awaited

\* C14: the stages of a pipeline run one after the other and the pipeline
\* stops at the first failure: whenever a stage has been spawned, every stage
\* before it has exited with code 0 (so the stages are spawned in order, one
\* at a time), and once a stage has exited with a non-zero code it is the
\* last process of the call, the call has returned and its result is an
\* error.
C14_SequentialAbort ==
    path = "pipeline" =>
        /\ \A k \in 1..Len(procs) : procs[k].stage = k
        /\ \A k \in 1..(Len(procs) - 1) :
               procs[k].state = "exited" /\ procs[k].returncode = <<0>>
        /\ \A k \in 1..Len(procs) :
               procs[k].returncode \notin {<<>>, <<0>>} =>
                   k = Len(procs) /\ pc = "done" /\ res.error # NoError

\* a two-stage pipeline whose first stage exited 0 and whose second stage
\* exited with a non-zero code
C14_Witness ==
    /\ path = "pipeline" /\ pc = "done" /\ Len(procs) = 2
    /\ procs[1].returncode = <<0>>
    /\ procs[2].returncode = <<1>>
    /\ res.error # NoError

\* the processes of the manager that have no return code yet
Alive == {k \in 1..Len(procs) : procs[k].returncode = <<>>}

C15_FailureCarriesStderr ==
    (pc = "pm_done" /\ procs # <<>> /\ procs[cur].killable
                    /\ procs[cur].returncode # <<>> /\ procs[cur].returncode[1] > 0) =>
        /\ ~result[1].ok
        /\ result[1].err = FailureMessage(procs[cur].stderr, procs[cur].returncode[1])

\* C16: when execute_pipeline has finished, every stage it spawned was given
\* on its stdin exactly the bytes the previous stage wrote to stdout (also
\* when they are empty), followed by end of file, and stage 1 was given
\* first_stdin; and when every stage of the pipeline exited 0 the returned
\* stdout and status are those of the last stage.
C16_StageInputIsPreviousOutput ==
    pc = "pm_done" =>
        /\ \A k \in 1..Len(procs) :
               procs[k].stdin = (IF k = 1 THEN first_stdin ELSE <<procs[k - 1].stdout>>)
        /\ (parsed # <<>> /\ Len(procs) = Len(parsed)
                          /\ \A k \in 1..Len(procs) : procs[k].returncode = <<0>>) =>
               /\ result[1].ok
               /\ result[1].val.stdout = procs[cur].stdout
               /\ result[1].val.returncode = 0

\* C18: every run of the supervisor's handler for SIGINT or SIGTERM, whatever
\* handler was installed before the supervisor (the OS default included),
\* has sent terminate to every tracked running process that can be
\* signalled, has put the previous handler back and has re-delivered the
\* signal to it: after a run for a signal, the handler installed for that
\* signal is the previous one and no longer the supervisor's.
C18_HandlerRestoresPrevious ==
    \A i \in 1..Len(handled) :
        LET h == handled[i]
        IN /\ h.swept
           /\ installed[h.signum] = original[h.signum]
           /\ installed[h.signum] # "handle_termination"
           /\ h.redelivered = original[h.signum]

\* C19: at every moment the registry holds exactly the processes the
\* supervisor has created that have not ended yet.
C19_RegistryIsRunning ==
    registry = {k \in 1..Len(procs) : procs[k].state # "exited"}

\* C20: cleanup_processes never raises and always returns: when its loop is
\* over, every process of the list that had no return code and can be
\* signalled has been killed, also when kill() failed for another process
\* of the list, and the wait that follows always ends, also when a killed
\* process is not reaped.
C20_CleanupReturns ==
    /\ [](pc # "sup_raised")
    /\ [](pc = "sup_reap" =>
             \A i \in 1..Len(processes) :
                 procs[processes[i]].killable => procs[processes[i]].state # "running")
    /\ ((pc = "sup_reap") ~> (pc = "sup_idle"))

\* cleanup_processes is past its loop: kill() failed for the first process
\* of the list, which is still running, and the second one has been killed
C20_Witness ==
    /\ pc = "sup_reap" /\ Len(processes) = 2
    /\ ~procs[processes[1]].killable /\ procs[processes[1]].state = "running"
    /\ procs[processes[2]].state = "killed"

\* C17: when a call with `> f` has returned with its output written, f holds
\* exactly that output, whatever f held before; when a call with `>> f` has
\* then returned with its output written, f holds the output of the first
\* command followed by the output of the second.
C17_RedirectionRoundTrip ==
    (pc = "done" /\ written # <<>>) =>
        /\ written[1].mode = "w"
        /\ Len(written) = 1 => fs[written[1].path] = written[1].out
        /\ Len(written) = 2 =>
               /\ written[2].mode = "a"
               /\ written[2].path = written[1].path
               /\ fs[written[2].path] = written[1].out \o written[2].out

\* what a helper called on its own returned
fnres == result[1]
Called(fn) == pc = "fn_done" /\ fnres.fn = fn

\* C21: validate_directory reports the first failing check of the fixed
\* order absent, relative, nonexistent, not a directory, not readable and
\* searchable, whatever the later checks would say; a directory that passes
\* all five is accepted.
C21_FirstFailingCheck ==
    Called("validate_directory") =>
        LET d == directory
            kind == fnres.out.err.kind
        IN
        /\ ~d.given => kind = "DirectoryRequired"
        /\ d.given /\ ~d.abs => kind = "DirectoryNotAbsolute"
        /\ d.given /\ d.abs /\ ~d.exists => kind = "DirectoryDoesNotExist"
        /\ d.given /\ d.abs /\ d.exists /\ ~d.isdir => kind = "NotADirectory"
        /\ d.given /\ d.abs /\ d.exists /\ d.isdir /\ ~d.access => kind = "DirectoryNotAccessible"
        /\ d.given /\ d.abs /\ d.exists /\ d.isdir /\ d.access => fnres.out.ok

\* a relative path that does not exist either is reported as not absolute
C21_Witness ==
    /\ Called("validate_directory")
    /\ directory.given /\ ~directory.abs /\ ~directory.exists
    /\ fnres.out.err.kind = "DirectoryNotAbsolute"

\* the first redirection operator of the vector, when no shell operator
\* stops the parse before it
FirstRedirection(cmd) ==
    CHOOSE i \in 1..Len(cmd) :
        /\ cmd[i] \in RedirectionOperators
        /\ \A j \in 1..(i - 1) : cmd[j] \notin RedirectionOperators \cup ShellOperators

HasFirstRedirection(cmd) ==
    \E i \in 1..Len(cmd) :
        /\ cmd[i] \in RedirectionOperators
        /\ \A j \in 1..(i - 1) : cmd[j] \notin RedirectionOperators \cup ShellOperators

\* C22: parse_command rejects each of >, >> and < that is the last token
\* with a missing-path error, and each of them that is immediately followed
\* by another redirection operator with an invalid-redirection-target
\* error; < is treated exactly like > and >>.
C22_RedirectionNeedsTarget ==
    Called("parse_command") /\ HasFirstRedirection(command) =>
        LET i == FirstRedirection(command)
            out == fnres.out
        IN
        /\ i = Len(command) =>
               ~out.ok /\ out.err.kind \in {"MissingOutputPath", "MissingInputPath"}
        /\ i < Len(command) /\ command[i + 1] \in RedirectionOperators =>
               ~out.ok /\ out.err.kind = "InvalidRedirectionTarget"

\* the parts of a glued token from the i-th on, each non-empty trimmed part
\* followed by | when a | followed it in the token
RECURSIVE PartsInPlace(_, _)
PartsInPlace(parts, i) ==
    IF i > Len(parts) THEN <<>>
    ELSE (IF Strip(parts[i]) = <<>> THEN <<>>
          ELSE <<Strip(parts[i])>> \o (IF i < Len(parts) THEN <<tPipe>> ELSE <<>>))
         \o PartsInPlace(parts, i + 1)

RECURSIVE RecoveredInPlace(_)
RecoveredInPlace(cmd) ==
    IF cmd = <<>> THEN <<>>
    ELSE LET token == Head(cmd) IN
         (IF token \in ProtectedOperators \/ token = tPipe \/ ~HasChar(token, "|")
          THEN <<token>>
          ELSE PartsInPlace(Split(token, "|"), 1))
         \o RecoveredInPlace(Tail(cmd))

\* C23: preprocess_command recovers glued pipes in place: a token that
\* contains | contributes its non-empty trimmed parts in order, with |
\* between consecutive parts and after a part that was followed by |
\* (ls| gives ls, |; a|b gives a, |, b); a token without |, a lone | and the
\* protected ||, && and ; pass unchanged.
C23_PipesRecoveredInPlace ==
    Called("preprocess_command") => fnres.out.normalized = RecoveredInPlace(command)

\* what a validator that has decided nothing before answers
FreshDecision(fn, arg, e) ==
    IF fn = "is_command_allowed" THEN IsCommandAllowed(arg[1], e)
    ELSE IF fn = "validate_command" THEN ValidateCommand(arg, e).ok
    ELSE ValidatePipeline(arg, e).ok

\* C24: under a fixed policy, validation has no hidden state that affects a
\* decision: the same call with the same command is answered the same way
\* however often it is made, and every answer is the one a validator that
\* has validated nothing before gives, whatever other commands were
\* validated earlier.
C24_ValidationIdempotent ==
    pc = "session" =>
        /\ \A i, j \in 1..Len(result) :
               result[i].fn = result[j].fn /\ result[i].arg = result[j].arg
                   => result[i].allowed = result[j].allowed
        /\ \A j \in 1..Len(result) :
               result[j].allowed = FreshDecision(result[j].fn, result[j].arg, env)

\* a pattern-based decision repeated after the validation of another command
C24_Witness ==
    /\ pc = "session"
    /\ Len(result) = 3
    /\ env = EnvMixed
    /\ result[1] = result[3]
    /\ result[1].fn = "validate_command" /\ result[1].arg = <<tA>> /\ result[1].allowed
    /\ result[2].arg = <<tB, tPipe, tA>>

\* C25: the string create_shell_command builds, tokenized by POSIX shell
\* rules, is the argument vector again, each argument trimmed of
\* surrounding whitespace unless it is whitespace only (then verbatim): no
\* argument is split, merged, dropped or read as a shell operator.
C25_QuotingRoundTrip ==
    Called("create_shell_command") =>
        LET words == ShellWords(fnres.out) IN
        /\ Len(words) = Len(command)
        /\ \A k \in 1..Len(words) :
               /\ ~words[k].op
               /\ words[k].text = IF IsSpace(command[k]) THEN command[k] ELSE Strip(command[k])

\* a vector with a quote inside an argument, an operator and a blank argument
C25_Witness ==
    /\ Called("create_shell_command")
    /\ InList(tQuoted, command) /\ InList(tSemi, command) /\ InList(tBlank, command)

\* t occurs in s
Contains(s, t) == \E i \in 1..(Len(s) - Len(t) + 1) : SubSeq(s, i, i + Len(t) - 1) = t

\* C26: when stage k of a pipeline has exited with a non-zero code, what
\* execute_pipeline hands back carries no stdout but still carries the
\* stderr accumulated over stages 1..k: the stderr text of every earlier,
\* successful stage is present in it.
C26_StderrSurvivesFailure ==
    (pc = "pm_done" /\ procs # <<>> /\ procs[cur].killable
                    /\ procs[cur].returncode # <<>> /\ procs[cur].returncode[1] > 0) =>
        /\ ~result[1].ok
        /\ result[1].val = <<>>
        /\ \A j \in 1..cur : Contains(result[1].err.text, DecodeReplace(procs[j].stderr))

\* C27: validate_pipeline accepts a token stream with a pipe exactly when
\* no token is ;, && or || and every stage (each stage ended by a |, and
\* the final stage at the end of the input, validated the same way) is
\* non-empty with a head the policy allows; a stream that begins with | is
\* rejected with 'Empty command before pipe operator'.
C27_PipelineAcceptedIff ==
    Called("validate_pipeline") /\ InList(tPipe, command) =>
        LET stages == Split(command, tPipe) IN
        /\ fnres.out.ok <=>
               /\ \A k \in 1..Len(command) : command[k] \notin {tSemi, tAnd, tOr}
               /\ \A k \in 1..Len(stages) :
                      stages[k] # <<>> /\ IsCommandAllowed(stages[k][1], env)
        /\ command[1] = tPipe =>
               ~fnres.out.ok /\ fnres.out.err.kind = "EmptyCommandBeforePipe"

\* C28: whatever the policy and the token stream, every process execute()
\* has spawned, on the single-command path and for every stage of a
\* pipeline, was spawned for a non-empty argument vector.
C28_SpawnedArgvNonEmpty ==
    \A k \in 1..Len(procs) : procs[k].argv # <<>>

\* the operators of the command language
AllOperators == ShellOperators \cup RedirectionOperators

\* C29: after preprocessing (preprocess_command, then clean_command) every
\* occurrence of an operator |, ;, &&, ||, >, >> or < is a token of its
\* own: no token of the result has an operator glued to other text.
C29_OperatorsStandAlone ==
    Called("preprocess_command") =>
        \A k \in 1..Len(fnres.out.cleaned) :
            LET token == fnres.out.cleaned[k] IN
            (\E op \in AllOperators : Contains(token, op)) => token \in AllOperators

\* the fallback of execute_with_timeout has begun / the exception has left it
FallbackRuns == pc \in {"kp_enter", "kp_poll", "kp_wait", "kp_return"}
FallbackOver == pc = "ewt_raised"

\* what holds at every step of the fallback: terminate is the first call and
\* every kill directly follows a terminate; a kill was made only after all
\* the polls found the process running; the exception that leaves is the
\* one communicate raised, the timeout error after a timeout
C30_FallbackOrder ==
    /\ \A i \in 1..Len(killing.calls) :
           killing.calls[i] = "kill" => i > 1 /\ killing.calls[i - 1] = "terminate"
    /\ \A i \in 1..Len(procs[1].sent) :
           procs[1].sent[i] = "SIGKILL" => i > 1 /\ procs[1].sent[i - 1] = "SIGTERM"
    /\ pc = "kp_wait" => killing.polls = Polls /\ procs[1].returncode = <<>>
    /\ FallbackOver =>
           /\ ~result[1].ok
           /\ result[1].err = killing.exc[1]
           /\ timedOut => result[1].err.type = "TimeoutError"
           /\ procs[1].killable /\ killing.calls # <<>> => killing.calls[1] = "terminate"

\* C30: when communicate times out or raises another exception,
\* execute_with_timeout calls terminate first, polls a bounded number of
\* times, calls kill only if the process is still running after the polls,
\* waits a bounded time for the exit, and re-raises the original exception
\* (the timeout error after a timeout); kill never comes before terminate,
\* and the fallback, once begun, always ends with that raise.
C30_TerminateThenKill ==
    /\ []C30_FallbackOrder
    /\ FallbackRuns ~> FallbackOver

\* a timeout on a process that ignores SIGTERM: terminate, five polls, kill,
\* the exit collected, TimeoutError raised
C30_Witness ==
    /\ FallbackOver
    /\ timedOut
    /\ killing.calls = <<"terminate", "kill">>
    /\ procs[1].returncode = <<0 - 9>>
    /\ result[1].err.type = "TimeoutError"

\* the number of calls of one kind the fallback has made
CallsOf(kind) == Cardinality({i \in 1..Len(killing.calls) : killing.calls[i] = kind})

\* C39: when communicate has failed on a running process that can be
\* signalled (a timeout with a timeout configured, or another exception)
\* and the exception has left execute_with_timeout, terminate was called
\* exactly once and kill at most once, whether or not the exit of the
\* killed process was observed.
C39_TerminateOnceKillAtMostOnce ==
    (FallbackOver /\ procs[1].killable /\ killing.calls # <<>>) =>
        /\ CallsOf("terminate") = 1
        /\ CallsOf("kill") <= 1

\* the call the session has just answered
lastCall == result[Len(result)]

\* C38: the compiled pattern list of a validator is built once, at the
\* first use of the patterns, from ALLOW_PATTERNS as it is then, and never
\* changes afterwards, whatever validations and configuration changes
\* follow; every decision goes by the allowed names of the environment at
\* the time of the call and by the patterns of that list.
C38_PatternsCompiledOnce ==
    /\ [][compiled_patterns # <<>> => compiled_patterns' = compiled_patterns]_vars
    /\ [][compiled_patterns = <<>> /\ compiled_patterns' # <<>>
              => compiled_patterns' = <<env.patterns>>]_vars
    /\ [][Len(result') > Len(result) =>
              LET made == result'[Len(result')]
                  pats == IF compiled_patterns' # <<>> THEN compiled_patterns'[1]
                          ELSE env.patterns
              IN made.allowed = FreshDecision(made.fn, made.arg,
                                              [allow |-> env.allow, patterns |-> pats])]_vars

\* a decision made by patterns that the environment no longer holds
C38_Witness ==
    /\ pc = "session"
    /\ Len(result) >= 2
    /\ compiled_patterns = <<EnvMixed.patterns>>
    /\ env = EnvNotB
    /\ lastCall.fn = "is_command_allowed"
    /\ lastCall.allowed # FreshDecision(lastCall.fn, lastCall.arg, env)

\* the positions of the redirection operators of a vector, of the output
\* operators and of the input operators, and of the targets that follow them
OperatorPositions(cmd) == {i \in 1..Len(cmd) : cmd[i] \in RedirectionOperators}
OutputPositions(cmd) == {i \in 1..Len(cmd) : cmd[i] \in {tGt, tGtGt}}
InputPositions(cmd) == {i \in 1..Len(cmd) : cmd[i] = tLt}
TargetPositions(cmd) == {i + 1 : i \in OperatorPositions(cmd)}

LastOf(S) == CHOOSE i \in S : \A j \in S : j <= i

\* the target of the last operator among the positions S, if any
LastTarget(cmd, S) ==
    IF S = {} \/ LastOf(S) + 1 > Len(cmd) THEN <<>> ELSE <<cmd[LastOf(S) + 1]>>

\* the tokens from position i on whose positions are not in S
RECURSIVE Without(_, _, _)
Without(cmd, S, i) ==
    IF i > Len(cmd) THEN <<>>
    ELSE (IF i \in S THEN <<>> ELSE <<cmd[i]>>) \o Without(cmd, S, i + 1)

\* C37: for every token list that parse_command or process_redirections
\* parses without error, the command vector returned is exactly the tokens
\* that are neither redirection operators nor their targets, in their
\* order, stdin is the target of the last <, stdout the target of the last
\* > or >>, and stdout_append says whether that last output operator is >>;
\* with no redirection token the three are none, none and false.
C37_RedirectionsExtracted ==
    (Called("parse_command") \/ Called("process_redirections")) /\ fnres.out.ok =>
        LET got == fnres.out.val
            outs == OutputPositions(command)
        IN
        /\ got.cmd = Without(command, OperatorPositions(command) \cup TargetPositions(command), 1)
        /\ got.redirects.stdin = LastTarget(command, InputPositions(command))
        /\ got.redirects.stdout = LastTarget(command, outs)
        /\ got.redirects.stdout_append = (outs # {} /\ command[LastOf(outs)] = tGtGt)

\* the errors of the policy and of the redirection syntax
PolicyErrors == {"CommandNotAllowed", "NoCommandsAllowed", "UnexpectedOperator",
                 "UnexpectedOperatorInPipeline", "EmptyCommandBeforePipe"}
RedirectionSyntaxErrors == {"MissingOutputPath", "MissingInputPath", "InvalidRedirectionTarget"}

\* C36: when execute() has returned a policy error or a redirection-syntax
\* error, for a single command or for a stage of a pipeline, the call has
\* opened no file: no output file was created or truncated and no input
\* file was opened or read.
C36_RejectionTouchesNoFile ==
    (pc = "done" /\ res.error.kind \in PolicyErrors \cup RedirectionSyntaxErrors) =>
        /\ handles = <<>>
        /\ fs = NoFilesTouched

\* the stages of the request as the user wrote them, and the redirections
\* of the first and of the last of them
RequestStages == SplitStages(Cleaned, <<>>, <<>>).val
FirstRedirects == ParseCommand(RequestStages[1]).val.redirects
LastRedirects == ParseCommand(RequestStages[Len(RequestStages)]).val.redirects

\* the files the call opened for input / for output
OpenedAs(name) == {handles[i].path : i \in {j \in 1..Len(handles) : handles[j].name = name}}

\* C35: when a pipeline has run to its end, the output of its last stage
\* went to the file its last stage redirects to, opened to truncate for >
\* and to append for >>, and to no file when the last stage has no output
\* redirection (an output redirection on another stage is ignored); the
\* file the first stage names after < was read for the stdin of the first
\* stage, and no other; also when two stages have the same tokens.
C35_PipelineRedirections ==
    (pc = "done" /\ path = "pipeline" /\ res.error = NoError) =>
        /\ IF Truthy(LastRedirects.stdout)
           THEN /\ Len(written) = 1
                /\ written[1].path = LastRedirects.stdout[1]
                /\ written[1].mode = OpenMode(LastRedirects)
           ELSE written = <<>> /\ OpenedAs("stdout") = {}
        /\ OpenedAs("stdin") = IF Truthy(FirstRedirects.stdin)
                               THEN {FirstRedirects.stdin[1]} ELSE {}

\* kill() was called on a process whose exit code communicate() or wait()
\* had collected: asyncio answers that call with ProcessLookupError, which
\* is then what execute_pipeline raises
SignalledAfterExit ==
    /\ result # <<>>
    /\ ~result[1].ok
    /\ result[1].err.type = "ProcessLookupError"

\* C34: the process manager calls terminate() or kill() only on a process
\* that is still running, never on one whose exit code has been observed
\* (in particular not on a pipeline stage that has exited with a non-zero
\* code), and a process with an exit code receives no further signal.
C34_SignalsOnlyRunning ==
    /\ ~SignalledAfterExit
    /\ \A k \in 1..Len(procs) :
          procs[k].state = "exited" /\ procs[k].returncode[1] >= 0 => procs[k].sent = <<>>

\* C33: under every interleaving of cleanup_all with create_process, a
\* process that is still running (and can be signalled) and has not been
\* sent kill is tracked in the registry.
C33_NoRunningProcessDropped ==
    \A k \in 1..Len(procs) :
        (procs[k].state = "running" /\ procs[k].killable) => k \in registry

\* C31: every timeout that is not null is a limit, 0 included: while
\* execute() waits for a process under such a timeout, the expiry of the
\* timeout can end the wait (the command is not left to run without a
\* limit), and a single command that was ended this way (and could be
\* killed) is reported with status -1.
C31_EveryTimeoutIsALimit ==
    /\ (pc = "communicate" /\ timeout # <<>>) => ENABLED CommunicateTimesOut
    /\ (pc = "done" /\ timedOut /\ path = "single") => res.status = 0 - 1

\* C32: when the cancellation of an execute() call that was awaiting
\* communicate() has propagated, every process the call spawned, the single
\* command or the pipeline stage that was running included, has been killed
\* and awaited: none is left running.
C32_CancelledCallLeavesNoProcess ==
    pc = "cancelled" =>
        \A k \in 1..Len(procs) : procs[k].state = "exited" /\ procs[k].awaited

====
